---------------------------- MODULE Spec2Model ----------------------------
(***************************************************************************)
(* State-machine model of the Scottish Budget 2026-27 data package:        *)
(* the per-metric calculators (calculators.py), the reform application     *)
(* functions (reforms.py), the batch pipeline (pipeline.py), the two web   *)
(* services (api.py, modal_app.py) and the mansion tax analysis script     *)
(* (scotland-mansion-tax/analyze_scottish_parliament_constituencies.py).   *)
(*                                                                         *)
(* Numbers.  The code computes with numpy float64.  The model computes     *)
(* with exact rationals [n, d] (d > 0, lowest terms) extended with the     *)
(* IEEE values the code can produce: NaN ([n |-> 0, d |-> 0]) and          *)
(* +/-Infinity ([n |-> +/-1, d |-> 0]).  Rounding error is not modelled.   *)
(***************************************************************************)
EXTENDS Integers, Sequences, FiniteSets, TLC

VARIABLES
    entry,      \* entry point that runs: "calculators", "metrics", "pipeline", "reforms", "web",
                \*   "concurrent", "mansion_tax"
    hh,         \* calculators, metrics: the sample the engine simulates (households; persons
                \*   for MetricsCalculator), a sequence of records
    op,         \* calculators: last calculate() that ran ("none" at start)
    out,        \* calculators: what that calculate() returned
    eng,        \* pipeline: the engine's dataset (households and their response to each policy)
    argv,       \* pipeline: the command line given to cli.main
    status,     \* pipeline: what cli.main returned (code -1: not returned) and reported
    files,      \* pipeline: whether the constituency weights file and the reference CSV exist,
                \*   and whether generate_all_data is given a dataset_path
    ppc,        \* pipeline: position of cli.main / generate_all_data
                \*   ("main", "exited", "loop", "raised", "write", "done")
    ri,         \* pipeline: index of the reform being processed
    yi,         \* pipeline: 0 = simulations and budgetary impact next, k = k-th year next
    tables,     \* pipeline: the accumulated all_* row lists
    wi,         \* pipeline: index of the next entry of results to save
    written,    \* pipeline: the CSV files saved so far, in order
    instances,  \* pipeline: the Microsimulation objects built so far and what ran on them
    tree,       \* reforms: the parameter tree of one simulation
    napplied,   \* reforms: how many reform functions have been applied to it
    lastfn,     \* reforms: the function applied last ("none" at start)
    other,      \* reforms: the parameter tree of a second simulation, never passed to a function
    req,        \* web: the request being handled
    pc,         \* web: index of the handler's next step
    sims,       \* web: the handler's simulation instances, by local name
    acc,        \* web: the impact records built so far
    resp,       \* web: the JSON response (status 0 until the handler returns)
    errors,     \* web: how the exceptions raised so far in this process ended
                \*   ("none", "caught" by a handler, "propagated" out of one)
    inflight,   \* concurrent: per request slot, the request, the handler's position and results
    heap,       \* concurrent: the Simulation objects of the container, by reference
    population_df,   \* mansion tax: the population CSV, constituency -> population
    wealth_factors,  \* mansion tax: what load_wealth_factors returned, constituency -> factor
    analysis         \* mansion tax: what analyze_constituencies has computed (NotRun before)

calcVars == <<hh, op, out>>

pipeVars == <<argv, status, eng, files, ppc, ri, yi, tables, wi, written, instances>>

reformVars == <<tree, napplied, lastfn, other>>

webVars == <<req, pc, sims, acc, resp, errors>>

concVars == <<inflight, heap>>

mansionVars == <<population_df, wealth_factors, analysis>>

-----------------------------------------------------------------------------
(* numpy float64 arithmetic, exact part + NaN/Inf *)

Abs(x) == IF x < 0 THEN -x ELSE x

Sgn(x) == IF x > 0 THEN 1 ELSE IF x < 0 THEN -1 ELSE 0

RECURSIVE GCD(_, _)
GCD(a, b) == IF b = 0 THEN a ELSE GCD(b, a % b)

NaN == [n |-> 0, d |-> 0]

Inf(s) == [n |-> s, d |-> 0]

\* the rational n/d (d # 0) in lowest terms with a positive denominator
Rat(n, d) ==
    LET g == GCD(Abs(n), Abs(d))
        s == IF d < 0 THEN -1 ELSE 1
    IN  [n |-> s * (n \div g), d |-> s * (d \div g)]

R(n) == [n |-> n, d |-> 1]

IsNaN(x) == x.d = 0 /\ x.n = 0

IsInf(x) == x.d = 0 /\ x.n # 0

IsFinite(x) == x.d # 0

RSgn(x) == Sgn(x.n)

RNeg(x) == [n |-> -x.n, d |-> x.d]

RAdd(x, y) ==
    IF IsNaN(x) \/ IsNaN(y) THEN NaN
    ELSE IF IsInf(x) THEN (IF IsInf(y) /\ y.n # x.n THEN NaN ELSE x)
    ELSE IF IsInf(y) THEN y
    ELSE LET g == GCD(x.d, y.d)
         IN  Rat(x.n * (y.d \div g) + y.n * (x.d \div g), (x.d \div g) * y.d)

RSub(x, y) == RAdd(x, RNeg(y))

RMul(x, y) ==
    IF IsNaN(x) \/ IsNaN(y) THEN NaN
    ELSE IF IsInf(x) \/ IsInf(y)
         THEN (IF RSgn(x) = 0 \/ RSgn(y) = 0 THEN NaN ELSE Inf(RSgn(x) * RSgn(y)))
    ELSE LET g == GCD(Abs(x.n), y.d)
             h == GCD(Abs(y.n), x.d)
         IN  Rat((x.n \div g) * (y.n \div h), (x.d \div h) * (y.d \div g))

\* numpy true division: x/0 is nan (x = 0) or +/-inf, never an exception
RDiv(x, y) ==
    IF IsNaN(x) \/ IsNaN(y) THEN NaN
    ELSE IF IsInf(x) THEN (IF IsInf(y) THEN NaN
                           ELSE Inf(x.n * (IF y.n < 0 THEN -1 ELSE 1)))
    ELSE IF IsInf(y) THEN R(0)
    ELSE IF y.n = 0 THEN (IF x.n = 0 THEN NaN ELSE Inf(Sgn(x.n)))
    ELSE Rat(x.n * y.d, x.d * y.n)

\* x > y as float comparison: False whenever a NaN is involved
RGt(x, y) ==
    IF IsNaN(x) \/ IsNaN(y) THEN FALSE
    ELSE IF IsInf(x) THEN x.n > 0 /\ ~(IsInf(y) /\ y.n > 0)
    ELSE IF IsInf(y) THEN y.n < 0
    ELSE LET g == GCD(x.d, y.d)
         IN  x.n * (y.d \div g) > y.n * (x.d \div g)

RAbs(x) == [n |-> Abs(x.n), d |-> x.d]

-----------------------------------------------------------------------------
(* sequences as numpy arrays / pandas columns *)

RECURSIVE SumSeq(_)
SumSeq(s) == IF s = <<>> THEN 0 ELSE Head(s) + SumSeq(Tail(s))

Range(s) == {s[i] : i \in DOMAIN s}

\* boolean-mask indexing a[mask]
Mask(a, mask) ==
    LET F[i \in 0..Len(a)] ==
            IF i = 0 THEN <<>>
            ELSE IF mask[i] THEN Append(F[i - 1], a[i]) ELSE F[i - 1]
    IN  F[Len(a)]


-----------------------------------------------------------------------------
(* The sample: what the engine returns per household.                      *)
(* country, household_weight, household_net_income of the baseline and of  *)
(* the reformed simulation, household_income_decile of the baseline.       *)

MaxHouseholds == 2

Weights == {0, 1, 2}

Incomes == {-2, 0, 4}

Changes == {-2, 0, 2}

\* household_income_decile of the engine: -1 for a negative income, else the rank
DecileOf(b) == IF b < 0 THEN -1 ELSE IF b = 0 THEN 1 ELSE 2

\* a household of weight 0 comes with no income change or a gain
ScottishHouseholds ==
    {[country |-> "SCOTLAND", w |-> w, base |-> b, reform |-> b + c, decile |-> DecileOf(b)] :
        w \in Weights \ {0}, b \in Incomes, c \in Changes}
    \cup {[country |-> "SCOTLAND", w |-> 0, base |-> b, reform |-> b + c, decile |-> DecileOf(b)] :
        b \in Incomes, c \in {0, 2}}

OtherHouseholds ==
    {[country |-> "ENGLAND", w |-> 1, base |-> 4, reform |-> 6, decile |-> 2],
     [country |-> "WALES", w |-> 2, base |-> 0, reform |-> -2, decile |-> 1]}

\* households at the edges of the calculators' comparisons: an income change of
\* exactly +1, in the highest decile, and one of exactly -1
BoundaryHouseholds ==
    {[country |-> "SCOTLAND", w |-> 1, base |-> 4, reform |-> 5, decile |-> 10],
     [country |-> "SCOTLAND", w |-> 2, base |-> 4, reform |-> 3, decile |-> 2]}

Households == ScottishHouseholds \cup BoundaryHouseholds \cup OtherHouseholds

Samples == [1..MaxHouseholds -> Households]

Column(s, f) == [i \in DOMAIN s |-> s[i][f]]

\* a mask that keeps every household
get_household_mask_AllCountries(sim) == [i \in DOMAIN sim |-> TRUE]

\* get_scotland_household_mask
get_scotland_household_mask(sim) == [i \in DOMAIN sim |-> sim[i].country = "SCOTLAND"]

-----------------------------------------------------------------------------
(* DistributionalImpactCalculator.calculate *)

ClipFromAboveOnly(x, lo, hi) == IF x > hi THEN hi ELSE x

\* Series.clip(lo, hi)
Clip(x, lo, hi) == IF x < lo THEN lo ELSE IF x > hi THEN hi ELSE x

decile_labels == <<"1st", "2nd", "3rd", "4th", "5th", "6th", "7th", "8th", "9th", "10th">>

\* lines 144-159: the Scotland-filtered frame with income_change and the clipped decile
DecileFrame(sim) ==
    LET is_scotland == get_scotland_household_mask(sim)
        rows == Mask(sim, is_scotland)
    IN  [i \in DOMAIN rows |->
            [baseline_income  |-> rows[i].base,
             reformed_income  |-> rows[i].reform,
             household_weight |-> rows[i].w,
             income_change    |-> rows[i].reform - rows[i].base,
             income_decile    |-> Clip(rows[i].decile, 1, 10)]]

\* (df[a] * df[b]).sum()
WeightedSum(df, a) == SumSeq([i \in DOMAIN df |-> df[i][a] * df[i].household_weight])

WeightSum(df) == SumSeq(Column(df, "household_weight"))

RelativeChangeNonZeroGuard(avg_change, avg_baseline) ==
    IF avg_baseline # R(0) THEN RMul(RDiv(avg_change, avg_baseline), R(100)) ELSE R(0)

\* x / y * 100 if y > 0 else 0
RelativeChange(avg_change, avg_baseline) ==
    IF RGt(avg_baseline, R(0)) THEN RMul(RDiv(avg_change, avg_baseline), R(100)) ELSE R(0)

\* lines 169-181: one row from a group of the frame
GroupRow(label, data) ==
    LET total_weight == R(WeightSum(data))
        avg_change   == RDiv(R(WeightedSum(data, "income_change")), total_weight)
        avg_baseline == RDiv(R(WeightedSum(data, "baseline_income")), total_weight)
    IN  [decile |-> label,
         value |-> RelativeChange(avg_change, avg_baseline),
         absolute_change |-> avg_change]

DecileData(df, decile) == SelectSeq(df, LAMBDA r : r.income_decile = decile)

\* lines 164-181: the loop over the deciles, skipping the empty ones
DecileRows(df) ==
    LET F[k \in 0..10] ==
            IF k = 0 THEN <<>>
            ELSE IF Len(DecileData(df, k)) = 0 THEN F[k - 1]
                 ELSE Append(F[k - 1], GroupRow(decile_labels[k], DecileData(df, k)))
    IN  F[10]

MeanOfValues(rows) ==
    LET F[k \in 0..Len(rows)] == IF k = 0 THEN R(0) ELSE RAdd(F[k - 1], rows[k].value)
    IN  RDiv(F[Len(rows)], R(Len(rows)))

DistributionalCalculateMeanOfDeciles(sim) ==
    LET df == DecileFrame(sim)
        deciles == DecileRows(df)
    IN  [rows |-> Append(deciles, [GroupRow("All", df) EXCEPT !.value = MeanOfValues(deciles)]),
         df |-> df]

\* lines 183-198
DistributionalCalculate(sim) ==
    LET df == DecileFrame(sim)
    IN  [rows |-> Append(DecileRows(df), GroupRow("All", df)), df |-> df]

-----------------------------------------------------------------------------
(* WinnersLosersCalculator.calculate *)

WeightWhere(df, P(_)) == WeightSum(SelectSeq(df, P))

WinnersLosersCalculateLosersDropped(decile_df) ==
    LET total_weight == WeightSum(decile_df)
        winners   == WeightWhere(decile_df, LAMBDA r : r.income_change > 1)
        losers    == WeightWhere(decile_df, LAMBDA r : r.income_change < -1)
        unchanged == total_weight - winners
        Pct(x)    == RMul(RDiv(R(x), R(total_weight)), R(100))
    IN  [winners_pct |-> Pct(winners),
         losers_pct |-> Pct(losers),
         unchanged_pct |-> Pct(unchanged)]

WinnersLosersCalculate(decile_df) ==
    LET total_weight == WeightSum(decile_df)
        winners   == WeightWhere(decile_df, LAMBDA r : r.income_change > 1)
        losers    == WeightWhere(decile_df, LAMBDA r : r.income_change < -1)
        unchanged == total_weight - winners - losers
        Pct(x)    == RMul(RDiv(R(x), R(total_weight)), R(100))
    IN  [winners_pct |-> Pct(winners),
         losers_pct |-> Pct(losers),
         unchanged_pct |-> Pct(unchanged)]

-----------------------------------------------------------------------------
(* microdf.MicroSeries as the calculators use it: values paired with       *)
(* weights; indexing by a mask keeps the pairing, subtraction keeps the    *)
(* weights of the left operand, sum() is the weighted sum                  *)

MicroSeries(values, weights) == [values |-> values, weights |-> weights]

MSMask(ms, mask) == MicroSeries(Mask(ms.values, mask), Mask(ms.weights, mask))

MSSub(a, b) == MicroSeries([i \in DOMAIN a.values |-> a.values[i] - b.values[i]], a.weights)

MSSumBug(ms) == SumSeq([i \in DOMAIN ms.values |-> ms.values[i] * ms.weights[i] * ms.weights[i]])

MSSum(ms) == SumSeq([i \in DOMAIN ms.values |-> ms.values[i] * ms.weights[i]])

\* sim.calculate("household_net_income", year): household values, household weights
CalculateNetIncome(sim, column) == MicroSeries(Column(sim, column), Column(sim, "w"))

\* (reformed_income[is_scotland] - baseline_income[is_scotland]).sum(), lines 111 and 128
ScotlandDifference(is_scotland, baseline_income, reformed_income) ==
    MSSum(MSSub(MSMask(reformed_income, is_scotland), MSMask(baseline_income, is_scotland)))

\* BudgetaryImpactCalculator._calculate_generic_cost_for_year, lines 123-128
\* (sim carries the fresh baseline's and the fresh reformed simulation's incomes)
CalculateGenericCost(sim) ==
    ScotlandDifference(get_scotland_household_mask(sim),
                       CalculateNetIncome(sim, "base"), CalculateNetIncome(sim, "reform"))

\* BudgetaryImpactCalculator._calculate_income_tax_cost_for_year, lines 106-111
CalculateIncomeTaxCost(sim) ==
    ScotlandDifference(get_scotland_household_mask(sim),
                       CalculateNetIncome(sim, "base"), CalculateNetIncome(sim, "reform"))

\* test_weight_method_simple.py, method 1: numpy arrays, filter, subtract,
\* multiply by the weights, sum
ManualCost(sim) ==
    LET is_scotland == get_scotland_household_mask(sim)
        baseline_np == Mask(Column(sim, "base"), is_scotland)
        reformed_np == Mask(Column(sim, "reform"), is_scotland)
        weights_np  == Mask(Column(sim, "w"), is_scotland)
    IN  SumSeq([i \in DOMAIN weights_np |-> (reformed_np[i] - baseline_np[i]) * weights_np[i]])

-----------------------------------------------------------------------------
(* ConstituencyCalculator.calculate *)

\* MicroSeries(values, weights=w).mean(): weighted_sum / sum_of_weights
MSMean(values, weights) ==
    RDiv(R(SumSeq([i \in DOMAIN values |-> values[i] * weights[i]])), R(SumSeq(weights)))

\* lines 456-475: the row of one constituency
ConstituencyRow(sim, row, const_weights) ==
    LET avg_baseline == MSMean(Column(sim, "base"), const_weights)
        avg_reform   == MSMean(Column(sim, "reform"), const_weights)
        avg_gain     == RSub(avg_reform, avg_baseline)
    IN  [constituency_code |-> row.code,
         constituency_name |-> row.name,
         average_gain |-> avg_gain,
         relative_change |-> IF RGt(avg_baseline, R(0))
                             THEN RMul(RDiv(avg_gain, avg_baseline), R(100)) ELSE R(0)]

\* lines 447-477: by position; a position past the matrix emits nothing
ConstituencyCalculate(sim, weights, constituency_df) ==
    LET F[idx \in 0..Len(constituency_df)] ==
            IF idx = 0 THEN <<>>
            ELSE IF idx > Len(weights) THEN F[idx - 1]
                 ELSE Append(F[idx - 1], ConstituencyRow(sim, constituency_df[idx], weights[idx]))
    IN  F[Len(constituency_df)]

\* whether some MicroSeries.mean() of the call divides by a zero weight sum
\* (microdf is outside the repository: numpy's nan, or ZeroDivisionError)
ZeroWeightMean(weights, constituency_df) ==
    \E idx \in 1..Len(constituency_df) : idx <= Len(weights) /\ SumSeq(weights[idx]) = 0

\* rows of the constituency x household weight matrix (parliamentary_constituency_weights.h5)
Zeros == [i \in 1..MaxHouseholds |-> 0]

Ones == [i \in 1..MaxHouseholds |-> 1]

Ramp == [i \in 1..MaxHouseholds |-> i - 1]

\* rows of constituencies_2024.csv; a code is its country letter and its number
AberdeenNorth == [code |-> <<"S", 14000001>>, name |-> "Aberdeen North"]

AberdeenSouth == [code |-> <<"S", 14000002>>, name |-> "Aberdeen South"]

Aldershot == [code |-> <<"E", 14001063>>, name |-> "Aldershot"]

\* a reference table of Scottish constituencies only
ScottishConstituencies == <<AberdeenNorth, AberdeenSouth>>

\* the weights file and the reference table as the pipeline finds them, and
\* the scotland_only argument: a matrix one row short of its table, with and
\* without the filter, and two matrices with a row for each constituency of a
\* table that has a constituency outside Scotland
ConstituencyData ==
    {[weights |-> <<Ones>>, constituency_df |-> ScottishConstituencies,
      scotland_only |-> FALSE],
     [weights |-> <<Ones>>, constituency_df |-> ScottishConstituencies,
      scotland_only |-> TRUE],
     [weights |-> <<Ones, Zeros, Ramp>>,
      constituency_df |-> <<Aldershot, AberdeenNorth, AberdeenSouth>>, scotland_only |-> TRUE],
     [weights |-> <<Ramp, Zeros, Ones>>,
      constituency_df |-> <<AberdeenNorth, Aldershot, AberdeenSouth>>, scotland_only |-> FALSE]}

\* str.startswith of a code
startswith(code, letter) == code[1] = letter

FilterTableOnly(weights, constituency_df, scotland_only) ==
    IF ~scotland_only
    THEN [raised |-> "none", weights |-> weights, constituency_df |-> constituency_df]
    ELSE LET scottish_mask == [i \in DOMAIN constituency_df |->
                                  startswith(constituency_df[i].code, "S")]
         IN  [raised |-> "none", weights |-> weights,
              constituency_df |-> Mask(constituency_df, scottish_mask)]

\* pipeline.py lines 86-92: the Scotland filter of the matrix and of the table;
\* numpy raises IndexError for a boolean index whose length is not the
\* matrix's number of rows
FilterToScotland(weights, constituency_df, scotland_only) ==
    IF ~scotland_only
    THEN [raised |-> "none", weights |-> weights, constituency_df |-> constituency_df]
    ELSE LET scottish_mask == [i \in DOMAIN constituency_df |->
                                  startswith(constituency_df[i].code, "S")]
         IN  IF Len(scottish_mask) # Len(weights)
             THEN [raised |-> "IndexError", weights |-> <<>>, constituency_df |-> <<>>]
             ELSE [raised |-> "none", weights |-> Mask(weights, scottish_mask),
                   constituency_df |-> Mask(constituency_df, scottish_mask)]

-----------------------------------------------------------------------------
(* MetricsCalculator.calculate.  The sample is per person: country,         *)
(* person_weight, is_child and the person's poverty level in the baseline   *)
(* and in the reformed simulation (0 not poor, 1 poor, 2 deeply poor).  The *)
(* sample does not tell housing costs or the two poverty lines apart: the   *)
(* engine's in_poverty_* and in_relative_poverty_* are level >= 1 and its   *)
(* in_deep_poverty_* are level = 2.                                         *)

PersonWeights == {0, 1}

PovertyLevels == {0, 1, 2}

\* a person of weight 0 stays in poverty or is lifted out of deep poverty
ScottishPersons ==
    {[country |-> "SCOTLAND", w |-> w, is_child |-> k, base |-> b, reform |-> r] :
        w \in PersonWeights \ {0}, k \in BOOLEAN, b \in PovertyLevels, r \in PovertyLevels}
    \cup {[country |-> "SCOTLAND", w |-> 0, is_child |-> k, base |-> b, reform |-> 2 - b] :
        k \in BOOLEAN, b \in {1, 2}}

OtherPersons == {[country |-> "ENGLAND", w |-> 1, is_child |-> TRUE, base |-> 0, reform |-> 2]}

PersonSamples == [1..MaxHouseholds -> ScottishPersons \cup OtherPersons]

\* get_scotland_person_mask
get_scotland_person_mask(sim) == [i \in DOMAIN sim |-> sim[i].country = "SCOTLAND"]

\* sim.calculate(variable, year, map_to="person").values of the simulation
\* whose levels are in the given column, as 0/1
CalculatePoverty(sim, column, variable) ==
    [i \in DOMAIN sim |->
        IF variable \in {"in_deep_poverty_bhc", "in_deep_poverty_ahc"}
        THEN (IF sim[i][column] = 2 THEN 1 ELSE 0)
        ELSE (IF sim[i][column] >= 1 THEN 1 ELSE 0)]

\* person_weight and child_weights = person_weight * is_child, Scotland only
PersonWeight(sim) == Mask(Column(sim, "w"), get_scotland_person_mask(sim))

ChildWeights(sim) ==
    LET person_weight == PersonWeight(sim)
        is_child == Mask(Column(sim, "is_child"), get_scotland_person_mask(sim))
    IN  [i \in DOMAIN person_weight |-> IF is_child[i] THEN person_weight[i] ELSE 0]

\* add_metric_set, lines 272-293: the three rows f"{metric_prefix}_baseline",
\* "_reform", "_change"; the metric name is kept as its parts
add_metric_set(prefix, name, baseline_values, reformed_values, weights) ==
    LET baseline_rate == RMul(MSMean(baseline_values, weights), R(100))
        reformed_rate == RMul(MSMean(reformed_values, weights), R(100))
    IN  <<[metric |-> <<prefix, name, "baseline">>, value |-> baseline_rate],
          [metric |-> <<prefix, name, "reform">>, value |-> reformed_rate],
          [metric |-> <<prefix, name, "change">>, value |-> RSub(reformed_rate, baseline_rate)]>>

\* lines 297-326 for one housing_cost and poverty_type
MetricsOf(sim, housing_cost, poverty_type) ==
    LET is_scotland == get_scotland_person_mask(sim)
        prefix == <<poverty_type, housing_cost>>
        poverty_var == IF poverty_type = "abs"
                       THEN (IF housing_cost = "bhc" THEN "in_poverty_bhc" ELSE "in_poverty_ahc")
                       ELSE (IF housing_cost = "bhc" THEN "in_relative_poverty_bhc"
                             ELSE "in_relative_poverty_ahc")
        deep_poverty_var == IF housing_cost = "bhc" THEN "in_deep_poverty_bhc"
                            ELSE "in_deep_poverty_ahc"
        baseline_poverty == Mask(CalculatePoverty(sim, "base", poverty_var), is_scotland)
        reformed_poverty == Mask(CalculatePoverty(sim, "reform", poverty_var), is_scotland)
        baseline_deep == Mask(CalculatePoverty(sim, "base", deep_poverty_var), is_scotland)
        reformed_deep == Mask(CalculatePoverty(sim, "reform", deep_poverty_var), is_scotland)
    IN  add_metric_set(prefix, "poverty_rate", baseline_poverty, reformed_poverty,
                       PersonWeight(sim))
        \o add_metric_set(prefix, "child_poverty_rate", baseline_poverty, reformed_poverty,
                          ChildWeights(sim))
        \o (IF poverty_type = "abs"
            THEN add_metric_set(prefix, "deep_poverty_rate", baseline_deep, reformed_deep,
                                PersonWeight(sim))
                 \o add_metric_set(prefix, "child_deep_poverty_rate", baseline_deep,
                                   reformed_deep, ChildWeights(sim))
            ELSE <<>>)

\* MetricsCalculator.calculate: housing_cost in [bhc, ahc], poverty_type in
\* [absolute, relative]
MetricsCalculate(sim) ==
    MetricsOf(sim, "bhc", "abs") \o MetricsOf(sim, "bhc", "rel")
    \o MetricsOf(sim, "ahc", "abs") \o MetricsOf(sim, "ahc", "rel")

\* whether a MicroSeries.mean() of the call divides by a zero weight sum
ZeroWeightMetric(sim) == SumSeq(PersonWeight(sim)) = 0 \/ SumSeq(ChildWeights(sim)) = 0

-----------------------------------------------------------------------------
(* reforms.py: the parameter tree of one simulation and the functions that  *)
(* mutate it.  A parameter is read at the instant <year>-01-01, so it is a  *)
(* function of the year; update(period="<year>-01-01") changes that year.   *)

INCOME_TAX_BASIC_THRESHOLD_2026 == 3968

INCOME_TAX_INTERMEDIATE_THRESHOLD_2026 == 16957

INCOME_TAX_HIGHER_THRESHOLD == 31093

INCOME_TAX_ADVANCED_THRESHOLD == 62431

INCOME_TAX_TOP_THRESHOLD == 112571

\* pounds per week x 100
SCP_BASELINE_RATE == 2715

SCP_INFLATION_RATE == 2820

DEFAULT_YEARS == <<2026, 2027, 2028, 2029, 2030>>

ParamYears == 2025..2031

\* the value the engine ships for a parameter the repository has not set
EngineDefault == 0

\* the engine's consumer_price_index parameter (an index number per year)
cpi(y) == 100 + 2 * (y - 2025)

\* Python round() of the float n/d (d > 0): half to even
Round(n, d) ==
    LET q == n \div d
        r == n % d
    IN  IF 2 * r < d THEN q
        ELSE IF 2 * r > d THEN q + 1
        ELSE IF q % 2 = 0 THEN q ELSE q + 1

get_cpi_uprated_value(base_value, base_year, target_year) ==
    IF target_year <= base_year THEN base_value
    ELSE Round(base_value * cpi(target_year), cpi(base_year))

\* the contrib baby-boost parameter is in effect from 2027 in the engine
DefaultParams ==
    [scp_amount |-> [y \in ParamYears |-> SCP_BASELINE_RATE],
     brackets   |-> [k \in 1..5 |-> [y \in ParamYears |-> EngineDefault]],
     in_effect  |-> [y \in ParamYears |-> y >= 2027]]

\* for year in DEFAULT_YEARS [if year >= first]: node.update(period, value)
UpdateFrom(node, first, Value(_)) ==
    [y \in ParamYears |-> IF y \in Range(DEFAULT_YEARS) /\ y >= first THEN Value(y) ELSE node[y]]

apply_scp_inflation_reform_Relative(P) ==
    [P EXCEPT !.scp_amount = UpdateFrom(@, 2026, LAMBDA y : P.scp_amount[y] + 105)]

apply_scp_inflation_reform(P) ==
    [P EXCEPT !.scp_amount = UpdateFrom(@, 2026, LAMBDA y : SCP_INFLATION_RATE)]

apply_basic_rate_uplift_reform(P) ==
    [P EXCEPT !.brackets[1] =
        UpdateFrom(@, 2026, LAMBDA y : get_cpi_uprated_value(INCOME_TAX_BASIC_THRESHOLD_2026, 2026, y))]

apply_intermediate_rate_uplift_reform(P) ==
    [P EXCEPT !.brackets[2] =
        UpdateFrom(@, 2026, LAMBDA y : get_cpi_uprated_value(INCOME_TAX_INTERMEDIATE_THRESHOLD_2026, 2026, y))]

apply_higher_rate_freeze_reform(P) ==
    [P EXCEPT !.brackets[3] = UpdateFrom(@, 2027, LAMBDA y : INCOME_TAX_HIGHER_THRESHOLD)]

apply_advanced_rate_freeze_reform(P) ==
    [P EXCEPT !.brackets[4] = UpdateFrom(@, 2027, LAMBDA y : INCOME_TAX_ADVANCED_THRESHOLD)]

apply_top_rate_freeze_reform(P) ==
    [P EXCEPT !.brackets[5] = UpdateFrom(@, 2027, LAMBDA y : INCOME_TAX_TOP_THRESHOLD)]

disable_scp_baby_boost(P) ==
    [P EXCEPT !.in_effect = UpdateFrom(@, 2027, LAMBDA y : FALSE)]

apply_scp_baby_boost_reform_AllYears(P) ==
    [P EXCEPT !.in_effect = UpdateFrom(@, 2026, LAMBDA y : TRUE)]

apply_scp_baby_boost_reform(P) ==
    [P EXCEPT !.in_effect = UpdateFrom(@, 2027, LAMBDA y : TRUE)]

\* the function a statement of apply_combined_reform calls
CallConstituent(fn, P) ==
    CASE fn = "apply_scp_inflation_reform"            -> apply_scp_inflation_reform(P)
      [] fn = "apply_basic_rate_uplift_reform"        -> apply_basic_rate_uplift_reform(P)
      [] fn = "apply_intermediate_rate_uplift_reform" -> apply_intermediate_rate_uplift_reform(P)
      [] fn = "apply_scp_baby_boost_reform"           -> apply_scp_baby_boost_reform(P)

\* the parameters after the first k calls of a function body
AfterCalls(calls, P, k) ==
    LET F[i \in 0..k] == IF i = 0 THEN P ELSE CallConstituent(calls[i], F[i - 1])
    IN  F[k]

apply_combined_reform_BabyBoostFirst ==
    <<"apply_scp_baby_boost_reform",
      "apply_scp_inflation_reform",
      "apply_basic_rate_uplift_reform",
      "apply_intermediate_rate_uplift_reform">>

\* the body of apply_combined_reform, lines 256-259
apply_combined_reform_body ==
    <<"apply_scp_inflation_reform",
      "apply_basic_rate_uplift_reform",
      "apply_intermediate_rate_uplift_reform",
      "apply_scp_baby_boost_reform">>

apply_combined_reform(P) ==
    AfterCalls(apply_combined_reform_body, P, Len(apply_combined_reform_body))

\* the list with the last definition carrying the id of the one before it
get_scottish_budget_reforms_RepeatedId ==
    <<[id |-> "combined",                       apply_fn |-> "apply_combined_reform"],
      [id |-> "scp_inflation",                  apply_fn |-> "apply_scp_inflation_reform"],
      [id |-> "scp_baby_boost",                 apply_fn |-> "apply_scp_baby_boost_reform"],
      [id |-> "income_tax_basic_uplift",        apply_fn |-> "apply_basic_rate_uplift_reform"],
      [id |-> "income_tax_intermediate_uplift", apply_fn |-> "apply_intermediate_rate_uplift_reform"],
      [id |-> "higher_rate_freeze",             apply_fn |-> "apply_higher_rate_freeze_reform"],
      [id |-> "advanced_rate_freeze",           apply_fn |-> "apply_advanced_rate_freeze_reform"],
      [id |-> "advanced_rate_freeze",           apply_fn |-> "apply_top_rate_freeze_reform"]>>

\* get_scottish_budget_reforms(): id and apply_fn of the eight definitions
get_scottish_budget_reforms ==
    <<[id |-> "combined",                       apply_fn |-> "apply_combined_reform"],
      [id |-> "scp_inflation",                  apply_fn |-> "apply_scp_inflation_reform"],
      [id |-> "scp_baby_boost",                 apply_fn |-> "apply_scp_baby_boost_reform"],
      [id |-> "income_tax_basic_uplift",        apply_fn |-> "apply_basic_rate_uplift_reform"],
      [id |-> "income_tax_intermediate_uplift", apply_fn |-> "apply_intermediate_rate_uplift_reform"],
      [id |-> "higher_rate_freeze",             apply_fn |-> "apply_higher_rate_freeze_reform"],
      [id |-> "advanced_rate_freeze",           apply_fn |-> "apply_advanced_rate_freeze_reform"],
      [id |-> "top_rate_freeze",                apply_fn |-> "apply_top_rate_freeze_reform"]>>

\* imported by calculators.py: the two threshold uplifts of the Budget
_income_tax_modifier(P) ==
    apply_intermediate_rate_uplift_reform(apply_basic_rate_uplift_reform(P))

\* imported by api.py
_income_tax_threshold_uplift_modifier(P) ==
    apply_intermediate_rate_uplift_reform(apply_basic_rate_uplift_reform(P))

\* imported by api.py
_scp_baby_boost_modifier(P) == apply_scp_baby_boost_reform(P)

\* calling the function object a definition or a scenario carries
Call(fn, P) ==
    CASE fn = "apply_combined_reform"                 -> apply_combined_reform(P)
      [] fn = "apply_scp_inflation_reform"            -> apply_scp_inflation_reform(P)
      [] fn = "apply_scp_baby_boost_reform"           -> apply_scp_baby_boost_reform(P)
      [] fn = "apply_basic_rate_uplift_reform"        -> apply_basic_rate_uplift_reform(P)
      [] fn = "apply_intermediate_rate_uplift_reform" -> apply_intermediate_rate_uplift_reform(P)
      [] fn = "apply_higher_rate_freeze_reform"       -> apply_higher_rate_freeze_reform(P)
      [] fn = "apply_advanced_rate_freeze_reform"     -> apply_advanced_rate_freeze_reform(P)
      [] fn = "apply_top_rate_freeze_reform"          -> apply_top_rate_freeze_reform(P)
      [] fn = "disable_scp_baby_boost"                -> disable_scp_baby_boost(P)
      [] fn = "_income_tax_modifier"                  -> _income_tax_modifier(P)
      [] OTHER                                        -> P

-----------------------------------------------------------------------------
(* The engine behind Microsimulation.calculate("household_net_income"):     *)
(* outside the repository.  Each household of the dataset has a baseline    *)
(* income and a response (gain) to each policy; a policy acts in a year when *)
(* the simulation's parameter for it differs from the engine's default, the *)
(* baby boost when in_effect is true.                                       *)

Policies == {"scp_inflation", "basic", "intermediate", "higher", "advanced", "top", "baby_boost"}

Active(P, y) ==
    {p \in Policies :
        CASE p = "scp_inflation" -> P.scp_amount[y] = SCP_INFLATION_RATE
          [] p = "basic"         -> P.brackets[1][y] # DefaultParams.brackets[1][y]
          [] p = "intermediate"  -> P.brackets[2][y] # DefaultParams.brackets[2][y]
          [] p = "higher"        -> P.brackets[3][y] # DefaultParams.brackets[3][y]
          [] p = "advanced"      -> P.brackets[4][y] # DefaultParams.brackets[4][y]
          [] p = "top"           -> P.brackets[5][y] # DefaultParams.brackets[5][y]
          [] p = "baby_boost"    -> P.in_effect[y]}

RECURSIVE SumGains(_, _)
SumGains(gain, S) ==
    IF S = {} THEN 0
    ELSE LET p == CHOOSE q \in S : TRUE IN gain[p] + SumGains(gain, S \ {p})

NetIncome(h, P, y) == h.base + SumGains(h.gain, Active(P, y))

\* Microsimulation(scenario=Scenario(simulation_modifier=fn)): the modifier
\* runs on the new instance's own parameter tree before anything is calculated
Microsimulation(data, modifier) == [data |-> data, params |-> Call(modifier, DefaultParams)]

\* sim.calculate("household_net_income", year): a MicroSeries with the household weights
SimNetIncome(sim, year) ==
    MicroSeries([i \in DOMAIN sim.data |-> NetIncome(sim.data[i], sim.params, year)],
                Column(sim.data, "w"))

Gains(inf, basic, inter, baby) ==
    [p \in Policies |->
        CASE p = "scp_inflation" -> inf
          [] p = "basic"         -> basic
          [] p = "intermediate"  -> inter
          [] p = "baby_boost"    -> baby
          [] p = "higher"        -> -1
          [] p = "advanced"      -> 0
          [] p = "top"           -> -2]

EngineDatasets ==
    {<<[country |-> "SCOTLAND", w |-> w, base |-> 10, gain |-> Gains(inf, basic, inter, baby)],
       [country |-> "ENGLAND", w |-> 3, base |-> 20, gain |-> Gains(5, 5, 5, 5)]>> :
        w \in {1, 2}, inf \in {0, 1, 3}, basic \in {0, 2}, inter \in {0, 1}, baby \in {0, 2}}

-----------------------------------------------------------------------------
(* BudgetaryImpactCalculator.calculate *)

\* reforms.calculate_scp_baby_boost_cost(sim, year): the premium the fresh
\* simulation pays to Scottish households in that year
calculate_scp_baby_boost_cost(sim, year) ==
    LET is_scotland == get_scotland_household_mask(sim.data)
        with    == SimNetIncome(sim, year)
        without == SimNetIncome([sim EXCEPT !.params = disable_scp_baby_boost(@)], year)
    IN  MSSum(MSSub(MSMask(with, is_scotland), MSMask(without, is_scotland)))

_calculate_scp_cost_for_year(data, year) ==
    calculate_scp_baby_boost_cost(Microsimulation(data, "none"), year)

_calculate_income_tax_cost_for_year(data, year) ==
    LET baseline == Microsimulation(data, "none")
        reformed == Microsimulation(data, "_income_tax_modifier")
    IN  ScotlandDifference(get_scotland_household_mask(baseline.data),
                           SimNetIncome(baseline, year), SimNetIncome(reformed, year))

_calculate_generic_cost_for_year(data, scenario, year) ==
    LET baseline == Microsimulation(data, "none")
        reformed == Microsimulation(data, scenario)
    IN  ScotlandDifference(get_scotland_household_mask(baseline.data),
                           SimNetIncome(baseline, year), SimNetIncome(reformed, year))

\* lines 61-75: the branch taken for a reform id
BudgetaryCost(data, scenario, reform_id, year) ==
    IF reform_id = "scp_baby_boost" THEN _calculate_scp_cost_for_year(data, year)
    ELSE IF reform_id = "combined"
         THEN _calculate_scp_cost_for_year(data, year) + _calculate_income_tax_cost_for_year(data, year)
    ELSE IF reform_id = "income_tax_threshold_uplift"
         THEN _calculate_income_tax_cost_for_year(data, year)
    ELSE _calculate_generic_cost_for_year(data, scenario, year)

\* lines 59-84: one row per year, value in millions
BudgetaryCalculate(data, scenario, reform_id, years) ==
    [k \in DOMAIN years |->
        [reform_id |-> reform_id,
         year |-> years[k],
         value |-> Rat(BudgetaryCost(data, scenario, reform_id, years[k]), 1000000)]]

-----------------------------------------------------------------------------
(* pipeline.generate_all_data *)

\* the years argument of the run
PipelineYears == <<2026, 2027>>

OutputNames == <<"budgetary_impact", "distributional_impact", "winners_losers", "metrics", "constituency">>

EmptyTables == [name \in Range(OutputNames) |-> <<>>]

Key(reform, year) == [reform_id |-> reform.id, year |-> year]

\* Microsimulation objects by serial number of construction: how many exist,
\* which two the loop's names baseline and reformed are bound to, and the
\* (instance, reform, year) triples for which a calculator calculated on one
NoInstances == [built |-> 0, baseline |-> 0, reformed |-> 0, uses |-> {}]

\* calculators.py lines 61-75: Microsimulation objects one year of
\* BudgetaryImpactCalculator.calculate constructs
BudgetarySimulations(reform_id) ==
    IF reform_id = "scp_baby_boost" THEN 1
    ELSE IF reform_id = "combined" THEN 3
    ELSE 2

Use(calc, inst, reform, year) ==
    [calc |-> calc, inst |-> inst, reform_id |-> reform.id, year |-> year]

\* cli.parse_args: --list-reforms and --reform (the empty set: not given)
CommandLines ==
    [list_reforms : BOOLEAN,
     reform : {{}, {"bogus"}, {"combined", "bogus"}, {"scp_inflation", "scp_baby_boost"}}]

DefaultCommandLine == [list_reforms |-> FALSE, reform |-> {}]

NotReturned == [code |-> -1, unknown_ids |-> {}]

\* cli.py lines 86-97: the reforms handed to generate_all_data
SelectedReforms ==
    IF argv.reform # {}
    THEN SelectSeq(get_scottish_budget_reforms, LAMBDA r : r.id \in argv.reform)
    ELSE get_scottish_budget_reforms

UnknownIdsUnlessSomeValid ==
    LET available == {get_scottish_budget_reforms[k].id : k \in DOMAIN get_scottish_budget_reforms}
    IN  IF argv.reform \cap available = {} THEN argv.reform ELSE {}

\* cli.py lines 90-92
UnknownIds ==
    argv.reform \ {get_scottish_budget_reforms[k].id : k \in DOMAIN get_scottish_budget_reforms}

ConstituencyDataLoadedWeightsOnly == files.weights

\* pipeline.py line 81 (and 150): weights and constituency_df are not None
ConstituencyDataLoaded == files.weights /\ files.constituencies

\* Reform.to_baseline_scenario(): the modifier of the reform's counterfactual
\* baseline, "none" for the engine's defaults.  The baby boost is in the
\* engine's baseline from 2027, so the reforms that contain it are measured
\* against a baseline with disable_scp_baby_boost applied.
to_baseline_scenario(reform) ==
    IF reform.id \in {"scp_baby_boost", "combined"} THEN "disable_scp_baby_boost" ELSE "none"

\* a comparison of two simulations: the parameters of each and the dataset
\* both are built on ("default": downloaded; "local": the file at dataset_path)
Comparison(baseline_fn, reformed_fn, dataset) ==
    [baseline |-> Call(baseline_fn, DefaultParams),
     reformed |-> Call(reformed_fn, DefaultParams),
     dataset  |-> dataset]

\* pipeline.py lines 105-120: the baseline and reformed simulations handed to
\* the per-year calculators
PipelineComparison(reform) ==
    Comparison(to_baseline_scenario(reform), reform.apply_fn,
               IF files.dataset_path THEN "local" ELSE "default")

\* calculators.py lines 61-75 with 86-128: the comparisons whose differences
\* BudgetaryImpactCalculator.calculate adds up for a reform; every simulation
\* is a Microsimulation() without dataset argument
BudgetaryComparisons(reform) ==
    IF reform.id = "scp_baby_boost"
    THEN {Comparison("disable_scp_baby_boost", "none", "default")}
    ELSE IF reform.id = "combined"
         THEN {Comparison("disable_scp_baby_boost", "none", "default"),
               Comparison("none", "_income_tax_modifier", "default")}
    ELSE IF reform.id = "income_tax_threshold_uplift"
         THEN {Comparison("none", "_income_tax_modifier", "default")}
    ELSE {Comparison("none", reform.apply_fn, "default")}

\* generate_all_data is called by cli.main, which passes no dataset_path, or
\* directly (all reforms, both constituency files present) with the path of a
\* local dataset
InitPipeline ==
    /\ entry = "pipeline"
    /\ argv \in CommandLines
    /\ status = NotReturned
    /\ instances = NoInstances
    /\ eng \in EngineDatasets
    /\ files \in [weights : BOOLEAN, constituencies : BOOLEAN, dataset_path : BOOLEAN]
    /\ IF files.dataset_path
       THEN ppc = "loop" /\ argv = DefaultCommandLine /\ files.weights /\ files.constituencies
       ELSE ppc = "main"
    /\ ri = 1 /\ yi = 0
    /\ tables = EmptyTables
    /\ wi = 1
    /\ written = <<>>

\* cli.main lines 72-100: up to the call of generate_all_data
Main ==
    /\ entry = "pipeline" /\ ppc = "main"
    /\ IF argv.list_reforms
       THEN ppc' = "exited" /\ status' = [code |-> 0, unknown_ids |-> {}]
       ELSE IF argv.reform # {} /\ UnknownIds # {}
            THEN ppc' = "exited" /\ status' = [code |-> 1, unknown_ids |-> UnknownIds]
            ELSE ppc' = "loop" /\ status' = status
    /\ UNCHANGED <<entry, mansionVars, concVars, calcVars, reformVars, webVars, argv, eng, files, ri, yi, tables, wi,
                   written, instances>>

\* lines 102-126: build the two simulations of a reform, budgetary impact
ProcessReform ==
    /\ entry = "pipeline" /\ ppc = "loop" /\ yi = 0
    /\ LET reform == SelectedReforms[ri]
       IN  tables' = [tables EXCEPT !["budgetary_impact"] =
                        @ \o BudgetaryCalculate(eng, reform.apply_fn, reform.id, PipelineYears)]
    /\ LET reform == SelectedReforms[ri]
           n == BudgetarySimulations(reform.id)
           first == instances.built + 2
       IN  instances' =
             [built    |-> first + n * Len(PipelineYears),
              baseline |-> instances.built + 1,
              reformed |-> instances.built + 2,
              uses     |-> instances.uses \cup
                             {Use("budgetary", first + (k - 1) * n + j, reform, PipelineYears[k]) :
                                 k \in DOMAIN PipelineYears, j \in 1..n}]
    /\ yi' = 1
    /\ UNCHANGED <<entry, mansionVars, concVars, calcVars, reformVars, webVars, argv, status, eng, files, ppc, ri, wi, written>>

ProcessYearStreamWrite ==
    /\ entry = "pipeline" /\ ppc = "loop" /\ yi >= 1
    /\ LET reform == SelectedReforms[ri]
           key == <<Key(reform, PipelineYears[yi])>>
       IN  tables' = [tables EXCEPT !["distributional_impact"] = @ \o key,
                                    !["winners_losers"] = @ \o key,
                                    !["metrics"] = @ \o key,
                                    !["constituency"] = IF ConstituencyDataLoaded THEN @ \o key ELSE @]
    /\ LET reform == SelectedReforms[ri]
           calcs == {"distributional", "metrics"}
                       \cup (IF ConstituencyDataLoaded THEN {"constituency"} ELSE {})
       IN  instances' = [instances EXCEPT !.uses = @ \cup
                            {Use(c, i, reform, PipelineYears[yi]) :
                                c \in calcs, i \in {instances.baseline, instances.reformed}}]
    /\ written' = Append(written, "distributional_impact")
    /\ IF yi < Len(PipelineYears)
       THEN yi' = yi + 1 /\ UNCHANGED <<ri, ppc>>
       ELSE /\ yi' = 0
            /\ ri' = ri + 1
            /\ ppc' = IF ri = Len(SelectedReforms) THEN "write" ELSE "loop"
    /\ UNCHANGED <<entry, mansionVars, concVars, calcVars, reformVars, webVars, argv, status, eng, files, wi>>

\* lines 129-155: the four per-year calculators of one year; lines 159-166
\* once the last reform's last year is done
ProcessYear ==
    /\ entry = "pipeline" /\ ppc = "loop" /\ yi >= 1
    /\ LET reform == SelectedReforms[ri]
           key == <<Key(reform, PipelineYears[yi])>>
       IN  tables' = [tables EXCEPT !["distributional_impact"] = @ \o key,
                                    !["winners_losers"] = @ \o key,
                                    !["metrics"] = @ \o key,
                                    !["constituency"] = IF ConstituencyDataLoaded THEN @ \o key ELSE @]
    /\ LET reform == SelectedReforms[ri]
           calcs == {"distributional", "metrics"}
                       \cup (IF ConstituencyDataLoaded THEN {"constituency"} ELSE {})
       IN  instances' = [instances EXCEPT !.uses = @ \cup
                            {Use(c, i, reform, PipelineYears[yi]) :
                                c \in calcs, i \in {instances.baseline, instances.reformed}}]
    /\ IF yi < Len(PipelineYears)
       THEN yi' = yi + 1 /\ UNCHANGED <<ri, ppc>>
       ELSE /\ yi' = 0
            /\ ri' = ri + 1
            /\ ppc' = IF ri = Len(SelectedReforms) THEN "write" ELSE "loop"
    /\ UNCHANGED <<entry, mansionVars, concVars, calcVars, reformVars, webVars, argv, status, eng, files, wi, written>>

\* a calculator (or the engine under it) raises inside the loop: the
\* exception leaves generate_all_data; cli.main lines 114-119 return 1 for a
\* FileNotFoundError and re-raise anything else (main does not return)
RaiseInLoop ==
    /\ entry = "pipeline" /\ ppc = "loop"
    /\ ppc' = "raised"
    /\ \E exception \in {"FileNotFoundError", "Exception"} :
          status' = IF exception = "FileNotFoundError" /\ ~files.dataset_path
                    THEN [code |-> 1, unknown_ids |-> {}]
                    ELSE status
    /\ UNCHANGED <<entry, mansionVars, concVars, calcVars, reformVars, webVars, argv, eng, files, ri, yi, tables, wi,
                   written, instances>>

\* lines 169-171: save_csv for the next entry of results, skipped when the
\* DataFrame has no rows
SaveResult ==
    /\ entry = "pipeline" /\ ppc = "write"
    /\ LET name == OutputNames[wi]
       IN  written' = IF Len(tables[name]) > 0 THEN Append(written, name) ELSE written
    /\ wi' = wi + 1
    /\ ppc' = IF wi = Len(OutputNames) THEN "done" ELSE "write"
    /\ status' = IF wi = Len(OutputNames) /\ ~files.dataset_path
                  THEN [code |-> 0, unknown_ids |-> {}] ELSE status
    /\ UNCHANGED <<entry, mansionVars, concVars, calcVars, reformVars, webVars, argv, eng, files, ri, yi, tables, instances>>

-----------------------------------------------------------------------------
(* reforms.py used on its own: reform functions applied, in any order, to   *)
(* the parameter tree of one simulation.                                    *)

MaxApplies == 3

ReformFunctions ==
    {get_scottish_budget_reforms[k].apply_fn : k \in DOMAIN get_scottish_budget_reforms}
        \cup {"disable_scp_baby_boost"}

\* what the engine ships for in_effect before 2027 is not the repository's choice
StartTrees ==
    {[DefaultParams EXCEPT !.in_effect = [y \in ParamYears |-> IF y < 2027 THEN early ELSE @[y]]] :
        early \in BOOLEAN}

\* two Microsimulation instances built from the same engine
InitReforms ==
    /\ entry = "reforms"
    /\ tree \in StartTrees
    /\ napplied = 0
    /\ lastfn = "none"
    /\ other = tree

ApplyReformFunction ==
    /\ entry = "reforms" /\ napplied < MaxApplies
    /\ \E fn \in ReformFunctions : tree' = Call(fn, tree) /\ lastfn' = fn
    /\ napplied' = napplied + 1
    /\ other' = other
    /\ UNCHANGED <<entry, mansionVars, concVars, calcVars, pipeVars, webVars>>

-----------------------------------------------------------------------------
(* modal_app.py: the per-year parameter functions of the deployed service   *)

\* CPI_FORECASTS.get(y, 0.02), in thousandths
CPI_FORECASTS(y) ==
    CASE y = 2026 -> 24
      [] y = 2027 -> 21
      [] y \in {2028, 2029, 2030} -> 20
      [] OTHER -> 20

RECURSIVE get_cpi_uprating_factor(_, _)
get_cpi_uprating_factor(base_year, target_year) ==
    IF target_year <= base_year THEN R(1)
    ELSE RMul(get_cpi_uprating_factor(base_year, target_year - 1),
              Rat(1000 + CPI_FORECASTS(target_year - 1), 1000))

\* quotient and remainder of a * n by d (a, n >= 0, d > 0), by doubling
RECURSIVE MulDiv(_, _, _)
MulDiv(a, n, d) ==
    IF a = 0 THEN <<0, 0>>
    ELSE LET h == MulDiv(a \div 2, n, d)
             t == 2 * h[2] + (IF a % 2 = 1 THEN n ELSE 0)
         IN  <<2 * h[1] + (t \div d), t % d>>

\* round(base * factor)
RoundMul(base, factor) ==
    LET qr == MulDiv(base, factor.n, factor.d)
    IN  IF 2 * qr[2] < factor.d THEN qr[1]
        ELSE IF 2 * qr[2] > factor.d THEN qr[1] + 1
        ELSE IF qr[1] % 2 = 0 THEN qr[1] ELSE qr[1] + 1

UpdateAt(node, year, value) == [node EXCEPT ![year] = value]

modal_apply_basic_rate_uplift(T, year) ==
    [T EXCEPT !.brackets[1] =
        UpdateAt(@, year, RoundMul(INCOME_TAX_BASIC_THRESHOLD_2026, get_cpi_uprating_factor(2026, year)))]

modal_apply_intermediate_rate_uplift(T, year) ==
    [T EXCEPT !.brackets[2] =
        UpdateAt(@, year, RoundMul(INCOME_TAX_INTERMEDIATE_THRESHOLD_2026, get_cpi_uprating_factor(2026, year)))]

\* apply_higher_rate_freeze, apply_advanced_rate_freeze, apply_top_rate_freeze
modal_apply_rate_freeze(T, k, frozen, year) ==
    IF year < 2027 THEN T
    ELSE IF year \in {2027, 2028}
         THEN [T EXCEPT !.brackets[k] = UpdateAt(@, year, frozen)]
         ELSE [T EXCEPT !.brackets[k] =
                  UpdateAt(@, year, RoundMul(frozen, get_cpi_uprating_factor(2028, year)))]

modal_apply_scp_inflation(T, year) ==
    [T EXCEPT !.scp_amount = UpdateAt(@, year, SCP_INFLATION_RATE)]

modal_set_scp_baseline_rate(T, year) ==
    [T EXCEPT !.scp_amount = UpdateAt(@, year, SCP_BASELINE_RATE)]

modal_apply_scp_baby_boost(T, year) ==
    IF year < 2027 THEN T
    ELSE [T EXCEPT !.in_effect = UpdateAt(@, year, TRUE)]

modal_disable_scp_baby_boost(T, year) ==
    IF year < 2027 THEN T
    ELSE [T EXCEPT !.in_effect = UpdateAt(@, year, FALSE)]

\* calling a modifier by name on a handler's simulation
CallModifier(fn, T, year) ==
    CASE fn = "modal.apply_basic_rate_uplift"        -> modal_apply_basic_rate_uplift(T, year)
      [] fn = "modal.apply_intermediate_rate_uplift" -> modal_apply_intermediate_rate_uplift(T, year)
      [] fn = "modal.apply_higher_rate_freeze"       ->
            modal_apply_rate_freeze(T, 3, INCOME_TAX_HIGHER_THRESHOLD, year)
      [] fn = "modal.apply_advanced_rate_freeze"     ->
            modal_apply_rate_freeze(T, 4, INCOME_TAX_ADVANCED_THRESHOLD, year)
      [] fn = "modal.apply_top_rate_freeze"          ->
            modal_apply_rate_freeze(T, 5, INCOME_TAX_TOP_THRESHOLD, year)
      [] fn = "modal.apply_scp_inflation"            -> modal_apply_scp_inflation(T, year)
      [] fn = "modal.set_scp_baseline_rate"          -> modal_set_scp_baseline_rate(T, year)
      [] fn = "modal.apply_scp_baby_boost"           -> modal_apply_scp_baby_boost(T, year)
      [] fn = "modal.disable_scp_baby_boost"         -> modal_disable_scp_baby_boost(T, year)
      [] fn = "_income_tax_threshold_uplift_modifier" -> _income_tax_threshold_uplift_modifier(T)
      [] fn = "_scp_baby_boost_modifier"             -> _scp_baby_boost_modifier(T)

-----------------------------------------------------------------------------
(* The handlers of api.py and modal_app.py as straight-line programs: the   *)
(* statements of a handler, in source order, for the request's inputs.      *)

\* api.py
YEAR == 2026

New(sim) == [op |-> "new", sim |-> sim, arg |-> "", year |-> 0]

Mod(sim, fn, year) == [op |-> "mod", sim |-> sim, arg |-> fn, year |-> year]

Calc(sim, variable, year) == [op |-> "calc", sim |-> sim, arg |-> variable, year |-> year]

Emit(kind, year) == [op |-> "emit", sim |-> "", arg |-> kind, year |-> year]

Respond == [op |-> "respond", sim |-> "", arg |-> "", year |-> 0]

Mods(sim, fns, year) == [k \in DOMAIN fns |-> Mod(sim, fns[k], year)]

\* Simulation(...); modifiers; calculate SCP; calculate net income
Block(sim, fns, year) ==
    <<New(sim)>> \o Mods(sim, fns, year)
        \o <<Calc(sim, "scottish_child_payment", year), Calc(sim, "household_net_income", year)>>

\* api.py lines 64-83 and 153-170
ApiStatements ==
    Block("baseline_sim", <<>>, YEAR)
        \o Block("income_tax_sim", <<"_income_tax_threshold_uplift_modifier">>, YEAR)
        \o <<New("scp_sim"),
             Calc("scp_sim", "scottish_child_payment", YEAR),
             Mod("scp_sim", "_scp_baby_boost_modifier", YEAR),
             Calc("scp_sim", "household_net_income", YEAR)>>

\* the baseline and the five income-tax simulations: modal_app.py lines
\* 352-404, 457-504, 171-231
ModalTaxStatements(year) ==
    LET base == <<"modal.set_scp_baseline_rate", "modal.disable_scp_baby_boost">>
    IN  Block("baseline_sim", base, year)
            \o Block("basic_sim", Append(base, "modal.apply_basic_rate_uplift"), year)
            \o Block("intermediate_sim", Append(base, "modal.apply_intermediate_rate_uplift"), year)
            \o Block("higher_sim", Append(base, "modal.apply_higher_rate_freeze"), year)
            \o Block("advanced_sim", Append(base, "modal.apply_advanced_rate_freeze"), year)
            \o Block("top_sim", Append(base, "modal.apply_top_rate_freeze"), year)

\* lines 406-436, 506-531, 233-254; only /calculate builds baseline_scp_sim
ModalScpStatements(year, receives_uc, own_baseline) ==
    (IF receives_uc
     THEN Block("scp_inf_sim", <<"modal.apply_scp_inflation", "modal.disable_scp_baby_boost">>, year)
            \o (IF own_baseline
                THEN Block("baseline_scp_sim",
                           <<"modal.set_scp_baseline_rate", "modal.disable_scp_baby_boost">>, year)
                ELSE <<>>)
     ELSE <<>>)
    \o
    (IF receives_uc /\ year >= 2027
     THEN Block("baby_sim", <<"modal.apply_scp_inflation", "modal.apply_scp_baby_boost">>, year)
            \o Block("no_baby_sim", <<"modal.apply_scp_inflation", "modal.disable_scp_baby_boost">>, year)
     ELSE <<>>)

ModalYearStatements(year, receives_uc, own_baseline) ==
    ModalTaxStatements(year) \o ModalScpStatements(year, receives_uc, own_baseline)
        \o <<Emit(IF own_baseline THEN "modal_own_baseline" ELSE "modal", year)>>

\* calculate_all: years = [2026, 2027, 2028, 2029, 2030]
ModalYears == <<2026, 2027, 2028, 2029, 2030>>

\* [calculate_for_year(inputs, year, receives_uc) for year in years]
RECURSIVE ModalAllYears(_, _)
ModalAllYears(years, receives_uc) ==
    IF years = <<>> THEN <<>>
    ELSE ModalYearStatements(Head(years), receives_uc, FALSE) \o ModalAllYears(Tail(years), receives_uc)

Program(r) ==
    CASE r.route = "/health"            -> <<Respond>>
      [] r.service = "api"              -> ApiStatements \o <<Emit("api", YEAR), Respond>>
      [] r.route = "/calculate"          ->
            ModalYearStatements(r.year, r.receives_uc, TRUE) \o <<Respond>>
      [] r.route = "/calculate-by-income" ->
            ModalYearStatements(r.year, r.receives_uc, FALSE) \o <<Respond>>
      [] r.route = "/calculate-all"      ->
            ModalAllYears(ModalYears, r.receives_uc) \o <<Respond>>

-----------------------------------------------------------------------------
(* the calculators entry point: one calculate() per action *)

NoOutput == [rows |-> <<>>, df |-> <<>>]

InitCalculators ==
    /\ entry = "calculators"
    /\ hh \in Samples
    /\ op = "none"
    /\ out = NoOutput

RunDistributional ==
    /\ entry = "calculators" /\ op = "none"
    /\ op' = "distributional"
    /\ out' = DistributionalCalculate(hh)
    /\ UNCHANGED <<entry, mansionVars, concVars, hh, pipeVars, reformVars, webVars>>

\* pipeline.py hands the frame returned by the distributional calculator on
RunWinnersLosers ==
    /\ entry = "calculators" /\ op = "distributional"
    /\ op' = "winners_losers"
    /\ out' = [rows |-> WinnersLosersCalculate(out.df), df |-> out.df]
    /\ UNCHANGED <<entry, mansionVars, concVars, hh, pipeVars, reformVars, webVars>>

RunBudgetaryGeneric ==
    /\ entry = "calculators" /\ op = "none"
    /\ op' = "budgetary_generic"
    /\ out' = [rows |-> <<CalculateGenericCost(hh)>>, df |-> <<>>]
    /\ UNCHANGED <<entry, mansionVars, concVars, hh, pipeVars, reformVars, webVars>>

RunBudgetaryIncomeTax ==
    /\ entry = "calculators" /\ op = "none"
    /\ op' = "budgetary_income_tax"
    /\ out' = [rows |-> <<CalculateIncomeTaxCost(hh)>>, df |-> <<>>]
    /\ UNCHANGED <<entry, mansionVars, concVars, hh, pipeVars, reformVars, webVars>>

\* pipeline.py lines 81-92 and 150-154: the constituency data is loaded,
\* filtered and handed to the calculator.  out.df keeps the weight matrix the
\* calculator was given, out.loaded the data as loaded.
RunConstituency ==
    /\ entry = "calculators" /\ op = "none"
    /\ \E loaded \in ConstituencyData :
        LET filtered == FilterToScotland(loaded.weights, loaded.constituency_df,
                                         loaded.scotland_only)
        IN  IF filtered.raised = "IndexError"
            THEN /\ op' = "constituency_raised"
                 /\ out' = [rows |-> <<>>, df |-> <<>>, loaded |-> loaded]
            ELSE \/ /\ op' = "constituency"
                    /\ out' = [rows |-> ConstituencyCalculate(hh, filtered.weights,
                                                              filtered.constituency_df),
                               df |-> filtered.weights, loaded |-> loaded]
                 \/ /\ ZeroWeightMean(filtered.weights, filtered.constituency_df)
                    /\ op' = "constituency_raised"
                    /\ out' = [rows |-> <<>>, df |-> filtered.weights, loaded |-> loaded]
    /\ UNCHANGED <<entry, mansionVars, concVars, hh, pipeVars, reformVars, webVars>>

\* MetricsCalculator.calculate on a person sample
InitMetrics ==
    /\ entry = "metrics"
    /\ hh \in PersonSamples
    /\ op = "none"
    /\ out = NoOutput

\* a mean over weights that sum to 0 is numpy's nan or, with other versions
\* of microdf, a ZeroDivisionError out of calculate
RunMetrics ==
    /\ entry = "metrics" /\ op = "none"
    /\ \/ /\ op' = "metrics"
          /\ out' = [rows |-> MetricsCalculate(hh), df |-> <<>>]
       \/ /\ ZeroWeightMetric(hh)
          /\ op' = "metrics_raised"
          /\ out' = NoOutput
    /\ UNCHANGED <<entry, mansionVars, concVars, hh, pipeVars, reformVars, webVars>>

-----------------------------------------------------------------------------
(* The web service handling one request *)

SimNames ==
    {"baseline_sim", "income_tax_sim", "scp_sim", "basic_sim", "intermediate_sim", "higher_sim",
     "advanced_sim", "top_sim", "scp_inf_sim", "baseline_scp_sim", "baby_sim", "no_baby_sim"}

\* a Simulation(situation=situation) nothing has touched yet; history lists
\* the modifier calls ("mod") and calculate calls ("calc") made on the instance
FreshSimulation ==
    [live |-> TRUE, params |-> DefaultParams, scp |-> [cached |-> FALSE, value |-> 0],
     net |-> 0, history |-> <<>>]

NoSimulation == [FreshSimulation EXCEPT !.live = FALSE]

ScpPolicies == {"scp_inflation", "baby_boost"}

\* the engine: a variable calculated once on an instance is cached there
ScottishChildPayment(sim, h, year) ==
    IF sim.scp.cached THEN sim.scp.value
    ELSE SumGains(h.gain, Active(sim.params, year) \cap ScpPolicies)

HouseholdNetIncome(sim, h, year) ==
    h.base + SumGains(h.gain, Active(sim.params, year) \ ScpPolicies)
        + ScottishChildPayment(sim, h, year)

\* the years a request may name (inputs.get("year", 2027))
WebYears == {2025, 2026, 2027, 2029}

WebHouseholds ==
    {[base |-> 10, gain |-> Gains(inf, 1, 2, baby)] : inf \in {0, 1}, baby \in {0, 4}}

Requests ==
    {[service |-> "api", route |-> r, year |-> YEAR, receives_uc |-> TRUE, household |-> h] :
        r \in {"/calculate", "/calculate-variation"}, h \in WebHouseholds}
    \cup
    {[service |-> "modal", route |-> r, year |-> y, receives_uc |-> uc, household |-> h] :
        r \in {"/calculate", "/calculate-by-income"}, y \in WebYears, uc \in BOOLEAN,
        h \in WebHouseholds}
    \cup
    {[service |-> "modal", route |-> "/calculate-all", year |-> 2027, receives_uc |-> uc,
      household |-> h] : uc \in BOOLEAN, h \in WebHouseholds}

\* GET /health of either service; it has no inputs
HealthRequests ==
    {[service |-> s, route |-> "/health", year |-> YEAR, receives_uc |-> TRUE,
      household |-> [base |-> 0, gain |-> Gains(0, 0, 0, 0)]] : s \in {"api", "modal"}}

NoResponse == [status |-> 0, body |-> <<>>]

InitWeb ==
    /\ entry = "web"
    /\ req \in Requests
    /\ pc = 1
    /\ sims = [n \in SimNames |-> NoSimulation]
    /\ acc = <<>>
    /\ resp = NoResponse
    /\ errors = "none"

Running == entry = "web" /\ pc <= Len(Program(req))

Statement == Program(req)[pc]

\* sim.calculate(variable, year) on one instance for the household h
CalculateOn(sim, variable, h, year) ==
    LET scp == ScottishChildPayment(sim, h, year)
    IN  IF variable = "scottish_child_payment"
        THEN [sim EXCEPT !.scp = [cached |-> TRUE, value |-> scp],
                         !.history = Append(@, "calc")]
        ELSE [sim EXCEPT !.scp = [cached |-> TRUE, value |-> scp],
                         !.net = HouseholdNetIncome(sim, h, year),
                         !.history = Append(@, "calc")]

\* what a statement that constructs, modifies or calculates does to its instance
Execute(sim, stmt, h) ==
    CASE stmt.op = "new"  -> FreshSimulation
      [] stmt.op = "mod"  -> [sim EXCEPT !.params = CallModifier(stmt.arg, @, stmt.year),
                                         !.history = Append(@, "mod")]
      [] stmt.op = "calc" -> CalculateOn(sim, stmt.arg, h, stmt.year)

NewSimulation ==
    /\ Running /\ Statement.op = "new"
    /\ sims' = [sims EXCEPT ![Statement.sim] = Execute(@, Statement, req.household)]
    /\ pc' = pc + 1
    /\ UNCHANGED <<entry, mansionVars, concVars, calcVars, pipeVars, reformVars, req, acc, resp,
                   errors>>

ApplyModifier ==
    /\ Running /\ Statement.op = "mod"
    /\ sims' = [sims EXCEPT ![Statement.sim] = Execute(@, Statement, req.household)]
    /\ pc' = pc + 1
    /\ UNCHANGED <<entry, mansionVars, concVars, calcVars, pipeVars, reformVars, req, acc, resp,
                   errors>>

Calculate ==
    /\ Running /\ Statement.op = "calc"
    /\ sims' = [sims EXCEPT ![Statement.sim] = Execute(@, Statement, req.household)]
    /\ pc' = pc + 1
    /\ UNCHANGED <<entry, mansionVars, concVars, calcVars, pipeVars, reformVars, req, acc, resp,
                   errors>>

\* S: the handler's local names bound to their instances
Net(S, name) == S[name].net

\* api.py lines 76-95 and 163-182 (the values are whole pounds: round(x, 2) keeps them)
ApiImpacts(S) ==
    [scp_baby_boost |-> Net(S, "scp_sim") - Net(S, "baseline_sim"),
     income_tax_threshold_uplift |-> Net(S, "income_tax_sim") - Net(S, "baseline_sim"),
     total |-> (Net(S, "income_tax_sim") - Net(S, "baseline_sim"))
                 + (Net(S, "scp_sim") - Net(S, "baseline_sim"))]

\* modal_app.py lines 359-446, 464-534, 178-270
ModalImpacts(S, receives_uc, year, own_baseline) ==
    LET base == Net(S, "baseline_sim")
        tax == [income_tax_basic_uplift        |-> Net(S, "basic_sim") - base,
                income_tax_intermediate_uplift |-> Net(S, "intermediate_sim") - base,
                higher_rate_freeze             |-> Net(S, "higher_sim") - base,
                advanced_rate_freeze           |-> Net(S, "advanced_sim") - base,
                top_rate_freeze                |-> Net(S, "top_sim") - base]
        scp_inflation == IF receives_uc
                         THEN Net(S, "scp_inf_sim")
                                - (IF own_baseline THEN Net(S, "baseline_scp_sim") ELSE base)
                         ELSE 0
        scp_baby_boost == IF receives_uc /\ year >= 2027
                          THEN Net(S, "baby_sim") - Net(S, "no_baby_sim")
                          ELSE 0
    IN  [year |-> year,
         income_tax_basic_uplift        |-> tax.income_tax_basic_uplift,
         income_tax_intermediate_uplift |-> tax.income_tax_intermediate_uplift,
         higher_rate_freeze             |-> tax.higher_rate_freeze,
         advanced_rate_freeze           |-> tax.advanced_rate_freeze,
         top_rate_freeze                |-> tax.top_rate_freeze,
         scp_inflation                  |-> scp_inflation,
         scp_baby_boost                 |-> scp_baby_boost,
         total |-> tax.income_tax_basic_uplift + tax.income_tax_intermediate_uplift
                     + tax.higher_rate_freeze + tax.advanced_rate_freeze + tax.top_rate_freeze
                     + scp_inflation + scp_baby_boost]

\* the record an "emit" statement builds for the request r
Impacts(S, r, stmt) ==
    IF stmt.arg = "api" THEN ApiImpacts(S)
    ELSE ModalImpacts(S, r.receives_uc, stmt.year, stmt.arg = "modal_own_baseline")

BuildImpacts ==
    /\ Running /\ Statement.op = "emit"
    /\ acc' = Append(acc, Impacts(sims, req, Statement))
    /\ pc' = pc + 1
    /\ UNCHANGED <<entry, mansionVars, concVars, calcVars, pipeVars, reformVars, req, sims, resp,
                   errors>>

\* return jsonify(...)
ReturnResponse ==
    /\ Running /\ Statement.op = "respond"
    /\ resp' = [status |-> 200,
                body |-> IF req.route = "/health" THEN <<[status |-> "healthy"]>> ELSE acc]
    /\ pc' = pc + 1
    /\ UNCHANGED <<entry, mansionVars, concVars, calcVars, pipeVars, reformVars, req, sims, acc,
                   errors>>

\* what can be raised inside a calculation handler: request.get_json() on a
\* malformed body (BadRequest) or without a JSON content type
\* (UnsupportedMediaType), inputs.get on a body that is JSON null
\* (AttributeError on None), and any error of the engine
InputExceptions == {"BadRequest", "UnsupportedMediaType", "AttributeError"}

Exceptions == InputExceptions \cup {"EngineError"}

\* a handler that lets the input errors through
CaughtEngineErrorsOnly(exception) == exception = "EngineError"

\* except Exception as e: every class above derives from Exception
Caught(exception) == exception \in Exceptions

\* an exception inside the try block of a calculation handler: reading the
\* inputs (before the first statement) or in any statement.  Caught, it is
\* answered by jsonify({"error": str(e)}), 500; propagated, the framework
\* answers with its own 500 page.  The handler's locals are gone either way.
RaiseInHandler ==
    /\ Running /\ req.route # "/health"
    /\ \E exception \in Exceptions :
        /\ exception \in InputExceptions => pc = 1
        /\ exception = "EngineError" => Statement.op \in {"new", "mod", "calc"}
        /\ IF Caught(exception)
           THEN /\ resp' = [status |-> 500, body |-> <<[error |-> exception]>>]
                /\ errors' = IF errors = "propagated" THEN errors ELSE "caught"
           ELSE /\ resp' = [status |-> 500, body |-> <<"Internal Server Error">>]
                /\ errors' = "propagated"
    /\ pc' = Len(Program(req)) + 1
    /\ sims' = [n \in SimNames |-> NoSimulation]
    /\ acc' = <<>>
    /\ UNCHANGED <<entry, mansionVars, concVars, calcVars, pipeVars, reformVars, req>>

\* the process takes the next request once the handler has returned
NextRequest ==
    /\ entry = "web" /\ resp.status # 0
    /\ req' \in Requests \cup HealthRequests
    /\ pc' = 1
    /\ sims' = [n \in SimNames |-> NoSimulation]
    /\ acc' = <<>>
    /\ resp' = NoResponse
    /\ UNCHANGED <<entry, mansionVars, concVars, calcVars, pipeVars, reformVars, errors>>

-----------------------------------------------------------------------------
(* The web service with requests in flight at the same time: one container  *)
(* (process) serves them, each by its own call of the handler; the handlers' *)
(* steps interleave.                                                        *)

\* request slots of the container
Slots == {1, 2}

ConcurrentRequests ==
    {r \in Requests :
        /\ r.route = "/calculate"
        /\ r.household.gain["scp_inflation"] = 1
        /\ \/ r.service = "api" /\ r.household.gain["baby_boost"] = 4
           \/ r.service = "modal" /\ r.year = 2027 /\ r.receives_uc}

RefShared(slot, name) == <<1, name>>

\* the object a handler call's local name is bound to: Simulation(...) returns
\* a new object to the call that made it
Ref(slot, name) == <<slot, name>>

Locals(slot) == [n \in SimNames |-> heap[Ref(slot, n)]]

InitConcurrent ==
    /\ entry = "concurrent"
    /\ inflight \in [Slots -> {[req |-> r, pc |-> 1, acc |-> <<>>, resp |-> NoResponse] :
                                  r \in ConcurrentRequests}]
    /\ heap = [k \in Slots \X SimNames |-> NoSimulation]

\* the next statement of the handler call in one slot
HandlerStep ==
    /\ entry = "concurrent"
    /\ \E slot \in Slots :
        LET f == inflight[slot]
            prog == Program(f.req)
        IN  /\ f.pc <= Len(prog)
            /\ LET stmt == prog[f.pc]
               IN  /\ heap' = IF stmt.op \in {"new", "mod", "calc"}
                              THEN [heap EXCEPT ![Ref(slot, stmt.sim)] =
                                       Execute(@, stmt, f.req.household)]
                              ELSE heap
                   /\ inflight' = [inflight EXCEPT ![slot] =
                         [req  |-> f.req,
                          pc   |-> f.pc + 1,
                          acc  |-> IF stmt.op = "emit"
                                   THEN Append(f.acc, Impacts(Locals(slot), f.req, stmt))
                                   ELSE f.acc,
                          resp |-> IF stmt.op = "respond"
                                   THEN [status |-> 200, body |-> f.acc]
                                   ELSE f.resp]]
    /\ UNCHANGED <<entry, calcVars, pipeVars, reformVars, webVars, mansionVars>>

-----------------------------------------------------------------------------
(* scotland-mansion-tax/analyze_scottish_parliament_constituencies.py:      *)
(* the weights that split a council's sales over its constituencies, and    *)
(* the total revenue Stock x Average Rate.                                  *)

BAND_I_SURCHARGE == 1500

BAND_J_SURCHARGE == 2500

ESTIMATED_STOCK == 11481

\* four of the 73 entries of the mapping: two councils of two constituencies
CONSTITUENCY_COUNCIL_MAPPING ==
    [c \in {"Edinburgh Central", "Edinburgh Western", "Aberdeen Central", "Aberdeen Donside"} |->
        IF c \in {"Edinburgh Central", "Edinburgh Western"} THEN "City of Edinburgh"
        ELSE "Aberdeen City"]

Constituencies == DOMAIN CONSTITUENCY_COUNCIL_MAPPING

Councils == {CONSTITUENCY_COUNCIL_MAPPING[c] : c \in Constituencies}

\* the two entries of COUNCIL_DATA for the councils of the mapping above
COUNCIL_DATA == [council \in Councils |-> IF council = "City of Edinburgh" THEN 200 ELSE 20]

\* total_sales = sum(COUNCIL_DATA.values())
total_sales == COUNCIL_DATA["City of Edinburgh"] + COUNCIL_DATA["Aberdeen City"]

BAND_I_RATIO == Rat(416, 466)

BAND_J_RATIO == Rat(50, 466)

\* the constituencies of council_data[council]
council_data(council) == {c \in Constituencies : CONSTITUENCY_COUNCIL_MAPPING[c] = council}

\* adjusted_value = pop * wealth_factor
adjusted_value(pdf, wf, c) == RMul(R(pdf[c]), wf[c])

\* sum(adj for _, _, _, adj in constituencies)
RECURSIVE total_adjusted(_, _, _)
total_adjusted(pdf, wf, S) ==
    IF S = {} THEN R(0)
    ELSE LET c == CHOOSE x \in S : TRUE
         IN  RAdd(adjusted_value(pdf, wf, c), total_adjusted(pdf, wf, S \ {c}))

\* the weight without the guard on the council's total
constituency_weight_unguarded(adj, total, n) == RDiv(adj, total)

\* weight = adjusted_value / total_adjusted if total_adjusted > 0 else 1 / len(constituencies)
constituency_weight(adj, total, n) == IF RGt(total, R(0)) THEN RDiv(adj, total) ELSE Rat(1, n)

NoWeights == <<>>

\* what calculate_wealth_adjusted_weights returns; NoWeights when it raises ValueError
\* (no population row, or no wealth factor, for a constituency of the mapping)
calculate_wealth_adjusted_weights(pdf, wf) ==
    IF \E c \in Constituencies : c \notin DOMAIN pdf \/ c \notin DOMAIN wf
    THEN NoWeights
    ELSE [c \in Constituencies |->
            LET council == CONSTITUENCY_COUNCIL_MAPPING[c]
                S == council_data(council)
            IN  [council       |-> council,
                 population    |-> pdf[c],
                 wealth_factor |-> wf[c],
                 weight        |-> constituency_weight(adjusted_value(pdf, wf, c),
                                                       total_adjusted(pdf, wf, S), Cardinality(S))]]

\* the average rate at the band split rounded to whole percents, 89% and 11%
avg_rate_AtRoundedShares ==
    RAdd(RMul(Rat(89, 100), R(BAND_I_SURCHARGE)), RMul(Rat(11, 100), R(BAND_J_SURCHARGE)))

\* avg_rate = BAND_I_RATIO * BAND_I_SURCHARGE + BAND_J_RATIO * BAND_J_SURCHARGE
avg_rate == RAdd(RMul(BAND_I_RATIO, R(BAND_I_SURCHARGE)), RMul(BAND_J_RATIO, R(BAND_J_SURCHARGE)))

\* total_stock_revenue = ESTIMATED_STOCK * avg_rate, held in millions
\* (total_stock_revenue/1e6, the only form in which the summary uses it): the
\* product in pounds exceeds the integers of the model checker
total_stock_revenue_m == RMul(Rat(ESTIMATED_STOCK, 1000000), avg_rate)

\* 10^k
RECURSIVE Pow10(_)
Pow10(k) == IF k = 0 THEN 1 ELSE 10 * Pow10(k - 1)

\* f"{x:.<k>f}" of a finite x: the decimal with k places nearest to x (ties to
\* even), given as the integer number of units of 10^-k
FormatFixed(x, k) == Round(x.n * Pow10(k), x.d)

\* round(x, 2)
round2(x) == Rat(Round(x.n * 100, x.d), 100)

\* "share_pct": round(share * 100, 2) if constituency_sales > 0 else 0, with
\* share = constituency_sales / total_sales if total_sales > 0 else 0
share_pct(constituency_sales) ==
    IF RGt(constituency_sales, R(0))
    THEN round2(RMul(IF total_sales > 0 THEN RDiv(constituency_sales, R(total_sales)) ELSE R(0),
                     R(100)))
    ELSE R(0)

\* the result rows (lines 484-519 and 534), by constituency.  allocated_revenue
\* = share_pct / 100 * total_stock_revenue is held as allocated_share, its
\* factor share_pct / 100: the product in pounds exceeds the integers of the
\* model checker
ResultRows(weights) ==
    [c \in DOMAIN weights |->
        LET constituency_sales == RMul(R(COUNCIL_DATA[weights[c].council]), weights[c].weight)
        IN  [council         |-> weights[c].council,
             estimated_sales |-> constituency_sales,
             share_pct       |-> share_pct(constituency_sales),
             allocated_share |-> RDiv(share_pct(constituency_sales), R(100))]]

NotRun == [at |-> "start", weights |-> NoWeights, rows |-> <<>>, printed |-> <<>>]

\* the population rows and the wealth factors read from the data files:
\* populations in units, factors in hundredths as round(factor, 2) leaves them
\* (nan when a constituency has no dwellings); the last constituency's row
\* may be absent from either file
Populations == {0, 1}

WealthFactors == {R(0), Rat(1, 2), Rat(3, 2), NaN}

MaybeWithoutLast == {Constituencies, Constituencies \ {"Aberdeen Donside"}}

InitMansionTax ==
    /\ entry = "mansion_tax"
    /\ \E D \in MaybeWithoutLast : population_df \in [D -> Populations]
    /\ \E D \in MaybeWithoutLast : wealth_factors \in [D -> WealthFactors]
    /\ analysis = NotRun

\* analyze_constituencies up to its revenue summary: the weights, the rows of
\* the returned frame, and the line
\* "Formula: Stock x Avg Rate = 11,481 x <avg_rate:,.0f> = <revenue/1e6:.1f>m";
\* a ValueError of calculate_wealth_adjusted_weights ends it
analyze_constituencies ==
    /\ entry = "mansion_tax" /\ analysis.at = "start"
    /\ LET w == calculate_wealth_adjusted_weights(population_df, wealth_factors)
       IN  analysis' =
             IF w = NoWeights
             THEN [at |-> "raised", weights |-> NoWeights, rows |-> <<>>, printed |-> <<>>]
             ELSE [at |-> "returned", weights |-> w, rows |-> ResultRows(w),
                   printed |-> [stock     |-> ESTIMATED_STOCK,
                                avg_rate  |-> FormatFixed(avg_rate, 0),
                                revenue_m |-> FormatFixed(total_stock_revenue_m, 1)]]
    /\ UNCHANGED <<entry, calcVars, pipeVars, reformVars, webVars, concVars, population_df,
                   wealth_factors>>

-----------------------------------------------------------------------------
(* The whole system: one of the entry points runs *)

IdleCalculators == hh = <<>> /\ op = "none" /\ out = NoOutput

IdlePipeline ==
    /\ argv = DefaultCommandLine /\ status = NotReturned
    /\ eng = <<>> /\ files = [weights |-> FALSE, constituencies |-> FALSE, dataset_path |-> FALSE]
    /\ ppc = "idle" /\ ri = 0 /\ yi = 0
    /\ tables = EmptyTables /\ wi = 0 /\ written = <<>> /\ instances = NoInstances

IdleReforms == tree = DefaultParams /\ napplied = 0 /\ lastfn = "none" /\ other = DefaultParams

IdleWeb ==
    /\ req = [service |-> "none"] /\ pc = 0
    /\ sims = [n \in SimNames |-> NoSimulation] /\ acc = <<>> /\ resp = NoResponse
    /\ errors = "none"

IdleConcurrent == inflight = <<>> /\ heap = <<>>

IdleMansionTax == population_df = <<>> /\ wealth_factors = <<>> /\ analysis = NotRun

vars == <<entry, hh, op, out, argv, status, eng, files, ppc, ri, yi, tables, wi, written, instances, tree, napplied,
          lastfn, other, req, pc, sims, acc, resp, errors, inflight, heap, population_df, wealth_factors,
          analysis>>

Init ==
    \/ InitCalculators /\ IdlePipeline /\ IdleReforms /\ IdleWeb /\ IdleConcurrent /\ IdleMansionTax
    \/ InitPipeline /\ IdleCalculators /\ IdleReforms /\ IdleWeb /\ IdleConcurrent /\ IdleMansionTax
    \/ InitReforms /\ IdleCalculators /\ IdlePipeline /\ IdleWeb /\ IdleConcurrent /\ IdleMansionTax
    \/ InitWeb /\ IdleCalculators /\ IdlePipeline /\ IdleReforms /\ IdleConcurrent /\ IdleMansionTax
    \/ InitConcurrent /\ IdleCalculators /\ IdlePipeline /\ IdleReforms /\ IdleWeb /\ IdleMansionTax
    \/ InitMansionTax /\ IdleCalculators /\ IdlePipeline /\ IdleReforms /\ IdleWeb /\ IdleConcurrent
    \/ InitMetrics /\ IdlePipeline /\ IdleReforms /\ IdleWeb /\ IdleConcurrent /\ IdleMansionTax

Next ==
    \/ RunDistributional
    \/ RunWinnersLosers
    \/ RunBudgetaryGeneric
    \/ RunBudgetaryIncomeTax
    \/ RunConstituency
    \/ RunMetrics
    \/ Main
    \/ ProcessReform
    \/ ProcessYear
    \/ RaiseInLoop
    \/ SaveResult
    \/ ApplyReformFunction
    \/ NewSimulation
    \/ ApplyModifier
    \/ Calculate
    \/ BuildImpacts
    \/ ReturnResponse
    \/ RaiseInHandler
    \/ NextRequest
    \/ HandlerStep
    \/ analyze_constituencies

Spec == Init /\ [][Next]_vars

-----------------------------------------------------------------------------
(* Properties of the calculators.  Expected values are computed from the    *)
(* sample hh by sums over index sets, not by the calculators' operators.    *)

RECURSIVE SetSum(_, _)
SetSum(S, F) ==
    IF S = {} THEN 0
    ELSE LET x == CHOOSE y \in S : TRUE IN F[x] + SetSum(S \ {x}, F)

ScotIdx == {i \in DOMAIN hh : hh[i].country = "SCOTLAND"}

GroupWeight(G) == SetSum(G, [i \in G |-> hh[i].w])

GroupBaseline(G) == SetSum(G, [i \in G |-> hh[i].w * hh[i].base])

GroupChange(G) == SetSum(G, [i \in G |-> hh[i].w * (hh[i].reform - hh[i].base)])

\* the households a distributional row is about
RowGroup(label) ==
    IF label = "All" THEN ScotIdx
    ELSE {i \in ScotIdx :
            decile_labels[Clip(hh[i].decile, 1, 10)] = label}

\* 100 x mean change / mean baseline of a group, as a float
UngroupedRatio(G) ==
    RMul(RDiv(RDiv(R(GroupChange(G)), R(GroupWeight(G))),
              RDiv(R(GroupBaseline(G)), R(GroupWeight(G)))), R(100))

BaselineMeanPositive(G) == GroupWeight(G) > 0 /\ GroupBaseline(G) > 0

AllRow == out.rows[Len(out.rows)]

Within(x, target, tol) == IsFinite(x) /\ ~RGt(RAbs(RSub(x, target)), tol)

PctSum == RAdd(RAdd(out.rows.winners_pct, out.rows.losers_pct), out.rows.unchanged_pct)

C2_AllRowIsUngroupedRatio ==
    op = "distributional" => AllRow.value = UngroupedRatio(ScotIdx)

\* C2 amended: the "All" row equals that ungrouped ratio whenever the weighted
\* mean baseline income is strictly positive, and is 0 otherwise.
C2_AllRowIsUngroupedRatio_Guarded ==
    op = "distributional" =>
        /\ AllRow.decile = "All"
        /\ AllRow.value = IF BaselineMeanPositive(ScotIdx)
                          THEN UngroupedRatio(ScotIdx) ELSE R(0)

\* two deciles are populated and the "All" value is not the mean of their values
C2_Witness ==
    /\ op = "distributional"
    /\ BaselineMeanPositive(ScotIdx)
    /\ Len(out.rows) >= 3
    /\ \A k \in DOMAIN out.rows : GroupWeight(RowGroup(out.rows[k].decile)) > 0
    /\ AllRow.value # MeanOfValues(SubSeq(out.rows, 1, Len(out.rows) - 1))

\* C5: a group of zero total weight (no Scottish household, all weights zero,
\* a decile whose weights are all zero) reports exactly 0 in every value.
C5_ZeroWeightReportsZero ==
    /\ op = "distributional" =>
        \A k \in DOMAIN out.rows :
            GroupWeight(RowGroup(out.rows[k].decile)) = 0 =>
                out.rows[k].value = R(0) /\ out.rows[k].absolute_change = R(0)
    /\ op = "winners_losers" /\ WeightSum(out.df) = 0 =>
        /\ out.rows.winners_pct = R(0)
        /\ out.rows.losers_pct = R(0)
        /\ out.rows.unchanged_pct = R(0)

\* what C6 expects of a group's relative change
GuardedRatio(weight, baseline, change) ==
    IF weight > 0 /\ baseline > 0 THEN Rat(100 * change, baseline) ELSE R(0)

ConstWeight(cw) == SetSum(DOMAIN hh, [i \in DOMAIN hh |-> cw[i]])

ConstBaseline(cw) == SetSum(DOMAIN hh, [i \in DOMAIN hh |-> cw[i] * hh[i].base])

ConstChange(cw) == SetSum(DOMAIN hh, [i \in DOMAIN hh |-> cw[i] * (hh[i].reform - hh[i].base)])

\* C6: in every decile row, the "All" row and every constituency row the
\* relative change is 0 when the weighted baseline mean is not strictly
\* positive (zero, negative or NaN), and 100 x mean change / baseline mean
\* otherwise.
C6_RatioGuardedByPositiveBaseline ==
    /\ op = "distributional" =>
        \A k \in DOMAIN out.rows :
            LET G == RowGroup(out.rows[k].decile)
            IN  out.rows[k].value = GuardedRatio(GroupWeight(G), GroupBaseline(G), GroupChange(G))
    /\ op = "constituency" =>
        \A k \in DOMAIN out.rows :
            out.rows[k].relative_change =
                GuardedRatio(ConstWeight(out.df[k]), ConstBaseline(out.df[k]), ConstChange(out.df[k]))

\* one decile row is guarded to 0 although its mean change is not 0, another
\* row reports a non-zero ratio
C6_Witness ==
    /\ op = "distributional"
    /\ \E k \in DOMAIN out.rows :
        LET G == RowGroup(out.rows[k].decile)
        IN  GroupWeight(G) > 0 /\ GroupBaseline(G) < 0 /\ GroupChange(G) # 0
    /\ \E k \in DOMAIN out.rows : out.rows[k].value # R(0)

ScottishCost == SetSum(ScotIdx, [i \in ScotIdx |-> hh[i].w * (hh[i].reform - hh[i].base)])

-----------------------------------------------------------------------------
(* Properties of the web handlers, the pipeline and the reform functions.   *)

\* a modifier call made on an instance after a calculate call on it
MutatedAfterCalculate(history) ==
    \E i, j \in DOMAIN history : i < j /\ history[i] = "calc" /\ history[j] = "mod"

\* C3: on every simulation instance of the web handlers (api.py /calculate and
\* /calculate-variation, modal_app.py /calculate, /calculate-all and
\* /calculate-by-income) every modifier is applied before the first
\* calculate() on that instance.
C3_ModifiersBeforeFirstCalculate ==
    entry = "web" => \A name \in SimNames : ~MutatedAfterCalculate(sims[name].history)

AllKeys ==
    {[reform_id |-> SelectedReforms[r].id, year |-> PipelineYears[y]] :
        r \in DOMAIN SelectedReforms, y \in DOMAIN PipelineYears}

\* every reform x year iteration has put its rows in the accumulated tables
LoopComplete ==
    /\ ri > Len(SelectedReforms)
    /\ \A name \in {"distributional_impact", "winners_losers", "metrics"} :
          Range(tables[name]) = AllKeys
    /\ {[reform_id |-> row.reform_id, year |-> row.year] :
          row \in Range(tables["budgetary_impact"])} = AllKeys

\* C4: generate_all_data writes no CSV until every reform x year iteration has
\* finished; when a calculator raises part-way through the loop no file has
\* been written; each CSV is written at most once per run.
C4_AccumulateThenWrite ==
    entry = "pipeline" =>
        /\ written # <<>> => ppc \in {"write", "done"} /\ LoopComplete
        /\ ppc = "raised" => written = <<>>
        /\ \A i, j \in DOMAIN written : written[i] = written[j] => i = j

C4_Witness ==
    entry = "pipeline" /\ ppc = "done" /\ Range(written) = Range(OutputNames)

\* the value of the budgetary row of a reform and year
BudgetValue(reform_id, year) ==
    LET row == CHOOSE r \in Range(tables["budgetary_impact"]) :
                    r.reform_id = reform_id /\ r.year = year
    IN  row.value

ConstituentSum(year) ==
    RAdd(RAdd(BudgetValue("scp_inflation", year), BudgetValue("scp_baby_boost", year)),
         RAdd(BudgetValue("income_tax_basic_uplift", year),
              BudgetValue("income_tax_intermediate_uplift", year)))

\* C7: for every year the 'combined' budgetary value differs from the sum of
\* the values of scp_inflation, scp_baby_boost, income_tax_basic_uplift and
\* income_tax_intermediate_uplift by less than 10% of that sum, whenever the
\* sum is non-zero.
C7_CombinedWithinTenPercentOfSum ==
    entry = "pipeline" /\ ppc \in {"write", "done"} /\ argv.reform = {} =>
        \A k \in DOMAIN PipelineYears :
            LET individual_sum == ConstituentSum(PipelineYears[k])
                combined       == BudgetValue("combined", PipelineYears[k])
            IN  RSgn(individual_sum) # 0 =>
                    RGt(RAbs(individual_sum), RMul(R(10), RAbs(RSub(combined, individual_sum))))

\* the parameter tree of the reform, and of the counterfactual it is measured
\* against (the baby boost, on in the engine from 2027, switched off)
ReformedTree(reform_id) ==
    LET reform == CHOOSE r \in Range(get_scottish_budget_reforms) : r.id = reform_id
    IN  Call(reform.apply_fn, DefaultParams)

CounterfactualTree(reform_id) ==
    IF reform_id \in {"scp_baby_boost", "combined"} THEN disable_scp_baby_boost(DefaultParams)
    ELSE DefaultParams

\* the change of Scottish households' weighted net income under the reform
ScottishIncomeChange(reform_id, year) ==
    SumSeq([i \in DOMAIN eng |->
        IF eng[i].country = "SCOTLAND"
        THEN eng[i].w * (NetIncome(eng[i], ReformedTree(reform_id), year)
                            - NetIncome(eng[i], CounterfactualTree(reform_id), year))
        ELSE 0])

\* C8: every row of BudgetaryImpactCalculator.calculate, whichever branch
\* computed it, is positive when Scottish households' weighted net income
\* rises under the reform (a cost to government) and negative when it falls.
C8_PositiveIsCostToGovernment ==
    entry = "pipeline" =>
        \A row \in Range(tables["budgetary_impact"]) :
            RSgn(row.value) = Sgn(ScottishIncomeChange(row.reform_id, row.year))

\* the year an entry of the response body is about
BodyYear(k) ==
    IF req.service = "api" THEN YEAR
    ELSE IF req.route = "/calculate-all" THEN resp.body[k].year
    ELSE req.year

\* C9: before 2027 the baby boost has zero impact: neither
\* disable_scp_baby_boost nor apply_scp_baby_boost_reform (nor their per-year
\* forms in the web service) changes in_effect for a year before 2027, and
\* every web response reports scp_baby_boost = 0 for a year before 2027.
C9_BabyBoostInertBefore2027 ==
    /\ entry = "reforms" =>
          \A y \in ParamYears : y < 2027 =>
              /\ disable_scp_baby_boost(tree).in_effect[y] = tree.in_effect[y]
              /\ apply_scp_baby_boost_reform(tree).in_effect[y] = tree.in_effect[y]
    /\ entry = "web" =>
          /\ \A name \in SimNames : \A y \in ParamYears : y < 2027 =>
                sims[name].params.in_effect[y] = DefaultParams.in_effect[y]
          /\ resp.status = 200 /\ req.route # "/health" =>
                \A k \in DOMAIN resp.body : BodyYear(k) < 2027 => resp.body[k].scp_baby_boost = 0

C9_Witness ==
    /\ entry = "web" /\ resp.status = 200 /\ req.service = "modal"
    /\ req.year < 2027 /\ req.receives_uc /\ req.household.gain["baby_boost"] > 0
    /\ req.route = "/calculate"

-----------------------------------------------------------------------------
(* Properties of the reform functions, continued *)

\* C11: each reform function of reforms.py is idempotent on the parameters of
\* the simulation it is given (applying the function that was just applied
\* once more leaves the tree as it is), and the parameters of a simulation
\* that was not passed in stay what the engine shipped.
C11_ApplyIsIdempotentAndLocal ==
    entry = "reforms" /\ napplied >= 1 =>
        /\ Call(lastfn, tree) = tree
        /\ other \in StartTrees

C11_Witness ==
    /\ entry = "reforms" /\ napplied >= 2
    /\ lastfn = "apply_combined_reform"
    /\ tree.scp_amount[2026] = SCP_INFLATION_RATE
    /\ tree.brackets[1][2028] # EngineDefault
    /\ tree.brackets[3][2027] = INCOME_TAX_HIGHER_THRESHOLD
    /\ tree # other

-----------------------------------------------------------------------------
(* Properties of the pipeline, continued *)

\* C12 as claimed: in generate_all_data no calculator calculates for one
\* (reform, year) on a Microsimulation object on which a calculator already
\* calculated for a different reform or a different year.
C12_FreshInstancesPerReformAndYear ==
    entry = "pipeline" =>
        \A u, v \in instances.uses :
            u.inst = v.inst => u.reform_id = v.reform_id /\ u.year = v.year

-----------------------------------------------------------------------------
(* Properties of the web service, continued *)

\* the handler run from statement k to its return, nothing else running
RECURSIVE RunFrom(_, _, _, _)
RunFrom(r, k, S, results) ==
    LET stmt == Program(r)[k]
    IN  IF stmt.op = "respond" THEN [status |-> 200, body |-> results]
        ELSE IF stmt.op = "emit" THEN RunFrom(r, k + 1, S, Append(results, Impacts(S, r, stmt)))
        ELSE RunFrom(r, k + 1, [S EXCEPT ![stmt.sim] = Execute(@, stmt, r.household)], results)

\* the response a request gets when it is the only one in flight
RunAlone(r) == RunFrom(r, 1, [n \in SimNames |-> NoSimulation], <<>>)

\* C13: requests in flight together share no mutable state: no simulation
\* object is reachable from two handler calls, and under every interleaving
\* of their statements each response equals the response the same request
\* gets when it runs alone.
C13_ConcurrentRequestsAreIsolated ==
    entry = "concurrent" =>
        /\ \A s1, s2 \in Slots : \A n1, n2 \in SimNames :
              Ref(s1, n1) = Ref(s2, n2) => s1 = s2
        /\ \A slot \in Slots :
              inflight[slot].resp.status = 200 =>
                  inflight[slot].resp = RunAlone(inflight[slot].req)

\* one request has returned while a different request is part-way through
\* its handler, both having built their baseline simulation
C13_Witness ==
    /\ entry = "concurrent"
    /\ inflight[1].resp.status = 200
    /\ inflight[1].resp.body # <<>>
    /\ inflight[2].resp.status = 0
    /\ inflight[2].req # inflight[1].req
    /\ heap[Ref(2, "baseline_sim")].live
    /\ heap[Ref(2, "baseline_sim")].history # <<>>

-----------------------------------------------------------------------------
(* Properties of cli.main and of the pipeline's handling of missing files *)

Available == {get_scottish_budget_reforms[k].id : k \in DOMAIN get_scottish_budget_reforms}

NothingGenerated == tables = EmptyTables /\ written = <<>> /\ instances = NoInstances

\* C14 as claimed: whenever --reform names an ID that is not a defined
\* reform, cli.main reports the unknown IDs, returns 1 and never invokes
\* generate_all_data (no output is written), even when other IDs of the same
\* call are valid.
C14_UnknownReformIdExitsOne ==
    entry = "pipeline" /\ ppc # "main" /\ argv.reform \ Available # {} =>
        /\ ppc = "exited"
        /\ status = [code |-> 1, unknown_ids |-> argv.reform \ Available]
        /\ NothingGenerated

\* C14 amended: the same, for a call without --list-reforms; with
\* --list-reforms main lists the reforms and returns 0 before it looks at
\* --reform, and still generates nothing.
C14_UnknownReformIdExitsOne_UnlessListing ==
    entry = "pipeline" /\ ppc # "main" /\ argv.reform \ Available # {} =>
        /\ ppc = "exited"
        /\ NothingGenerated
        /\ status = IF argv.list_reforms
                    THEN [code |-> 0, unknown_ids |-> {}]
                    ELSE [code |-> 1, unknown_ids |-> argv.reform \ Available]

\* an unknown ID named together with a valid one
C14_Witness ==
    /\ entry = "pipeline" /\ ppc = "exited"
    /\ ~argv.list_reforms
    /\ argv.reform = {"combined", "bogus"}
    /\ status.code = 1 /\ status.unknown_ids = {"bogus"}

\* C15 as claimed: cli.main returns 0 when data generation succeeds and 1
\* when an input file the pipeline reads (constituency weights file,
\* constituency reference CSV, dataset file) is missing; it never returns 0
\* for a run in which such a file was missing.
C15_ExitCodeOneWhenInputFileMissing ==
    entry = "pipeline" /\ ppc \in {"done", "raised"} =>
        /\ ppc = "done" => status.code = 0
        /\ status.code = 0 => files.weights /\ files.constituencies

\* the rows the loop leaves in a table, from the run's inputs other than the
\* constituency files
ExpectedBudgetary ==
    LET F[k \in 0..Len(SelectedReforms)] ==
            IF k = 0 THEN <<>>
            ELSE F[k - 1] \o BudgetaryCalculate(eng, SelectedReforms[k].apply_fn,
                                                SelectedReforms[k].id, PipelineYears)
    IN  F[Len(SelectedReforms)]

ExpectedKeys ==
    [i \in 1..(Len(SelectedReforms) * Len(PipelineYears)) |->
        Key(SelectedReforms[((i - 1) \div Len(PipelineYears)) + 1],
            PipelineYears[((i - 1) % Len(PipelineYears)) + 1])]

\* C16: when the constituency weights file or the reference CSV is missing,
\* ConstituencyCalculator is never invoked, the constituency table stays
\* empty and constituency.csv is not written; the other four tables and
\* their files are what the same run produces with the files present.
C16_MissingConstituencyFilesSkipOnlyConstituency ==
    entry = "pipeline" =>
        /\ ~(files.weights /\ files.constituencies) =>
              /\ \A u \in instances.uses : u.calc # "constituency"
              /\ tables["constituency"] = <<>>
              /\ \A i \in DOMAIN written : written[i] # "constituency"
        /\ ppc \in {"write", "done"} =>
              /\ tables["budgetary_impact"] = ExpectedBudgetary
              /\ \A name \in {"distributional_impact", "winners_losers", "metrics"} :
                    tables[name] = ExpectedKeys
        /\ ppc = "done" =>
              SubSeq(written, 1, 4) = SubSeq(OutputNames, 1, 4)

\* a finished run with the weights file present and the reference CSV missing
C16_Witness ==
    /\ entry = "pipeline" /\ ppc = "done"
    /\ files.weights /\ ~files.constituencies
    /\ argv.reform = {}
    /\ written = SubSeq(OutputNames, 1, 4)
    /\ \E u \in instances.uses : u.calc = "metrics" /\ u.year = 2027

-----------------------------------------------------------------------------
(* C17 *)

\* sum of the weights of a set of constituencies
RECURSIVE SumOfWeights(_, _)
SumOfWeights(w, S) ==
    IF S = {} THEN R(0)
    ELSE LET c == CHOOSE x \in S : TRUE
         IN  RAdd(w[c].weight, SumOfWeights(w, S \ {c}))

\* C17: in what calculate_wealth_adjusted_weights returns, the weights of the
\* constituencies of every council sum to 1; when the council's total of
\* population x wealth factor is 0, each of its n constituencies has weight 1/n.
C17_CouncilWeightsSumToOne ==
    (entry = "mansion_tax" /\ analysis.at = "returned") =>
        \A council \in Councils :
            LET S == council_data(council)
            IN  /\ SumOfWeights(analysis.weights, S) = R(1)
                /\ total_adjusted(population_df, wealth_factors, S) = R(0) =>
                       \A c \in S : analysis.weights[c].weight = Rat(1, Cardinality(S))

\* one council split in unequal proportional shares, the other with total 0
\* split uniformly
C17_Witness ==
    /\ entry = "mansion_tax" /\ analysis.at = "returned"
    /\ analysis.weights["Edinburgh Central"].weight = Rat(1, 4)
    /\ analysis.weights["Edinburgh Western"].weight = Rat(3, 4)
    /\ total_adjusted(population_df, wealth_factors, council_data("Aberdeen City")) = R(0)
    /\ analysis.weights["Aberdeen Central"].weight = Rat(1, 2)
    /\ analysis.weights["Aberdeen Donside"].weight = Rat(1, 2)

-----------------------------------------------------------------------------
(* C18 *)

\* C18: with stock 11,481, rates 1,500 and 2,500 and shares 416/466 and 50/466
\* the blended rate rounds to 1,607, the revenue stock x blended rate is 18.45
\* million to two places, and the summary reports it as 18.5 million.
C18_RevenueIs18Point5Million ==
    (entry = "mansion_tax" /\ analysis.at = "returned") =>
        /\ analysis.printed.stock = 11481
        /\ BAND_I_SURCHARGE = 1500 /\ BAND_J_SURCHARGE = 2500
        /\ BAND_I_RATIO = Rat(416, 466) /\ BAND_J_RATIO = Rat(50, 466)
        /\ analysis.printed.avg_rate = 1607
        /\ FormatFixed(total_stock_revenue_m, 2) = 1845
        /\ analysis.printed.revenue_m = 185

C18_Witness ==
    /\ entry = "mansion_tax" /\ analysis.at = "returned"
    /\ analysis.printed = [stock |-> 11481, avg_rate |-> 1607, revenue_m |-> 185]

-----------------------------------------------------------------------------
(* C19 *)

\* the reformed simulation returns the baseline's values for every entity
IdentityReform == \A i \in DOMAIN hh : hh[i].reform = hh[i].base

\* C19: under an identity reform every calculator yields zero deltas:
\* distributional value and absolute_change are 0 in every row, winners_pct
\* and losers_pct are 0 and unchanged_pct is 100, every metrics change row is
\* 0, every constituency average_gain and relative_change is 0 and the
\* generic budgetary cost is 0.
C19_IdentityReformYieldsZeroDeltas ==
    (entry \in {"calculators", "metrics"} /\ IdentityReform) =>
        /\ op = "distributional" =>
              \A i \in DOMAIN out.rows :
                  out.rows[i].value = R(0) /\ out.rows[i].absolute_change = R(0)
        /\ op = "winners_losers" =>
              out.rows = [winners_pct |-> R(0), losers_pct |-> R(0), unchanged_pct |-> R(100)]
        /\ op = "metrics" =>
              \A i \in DOMAIN out.rows :
                  out.rows[i].metric[3] = "change" => out.rows[i].value = R(0)
        /\ op = "constituency" =>
              \A i \in DOMAIN out.rows :
                  out.rows[i].average_gain = R(0) /\ out.rows[i].relative_change = R(0)
        /\ op = "budgetary_generic" => out.rows = <<0>>

-----------------------------------------------------------------------------
(* C20 *)

\* C20: the distributional output of a (reform, year) has exactly one row for
\* each of the ten decile labels 1st..10th, followed by one "All" row.
C20_TenDecileRowsAndAll ==
    (entry = "calculators" /\ op = "distributional") =>
        Column(out.rows, "decile") = decile_labels \o <<"All">>

-----------------------------------------------------------------------------
(* C21 *)

\* C21: an exception raised while a calculation endpoint handles a request
\* (missing or malformed JSON included) is caught inside the handler and
\* answered with a JSON error object and status 500; no exception propagates
\* out of a handler, and the process takes later requests, /health included.
C21_ExceptionsAnsweredWith500 ==
    entry = "web" =>
        /\ errors # "propagated"
        /\ resp.status \in {0, 200, 500}
        /\ resp.status = 500 => \E e \in Exceptions : resp.body = <<[error |-> e]>>
        /\ resp.status # 0 => ENABLED NextRequest

\* /health answered after an earlier request ended in a caught exception
C21_Witness ==
    /\ entry = "web" /\ errors = "caught"
    /\ req.route = "/health"
    /\ resp = [status |-> 200, body |-> <<[status |-> "healthy"]>>]

-----------------------------------------------------------------------------
(* C22 *)

\* the ids tests/test_reforms.py expects
expected_ids ==
    {"combined", "scp_inflation", "scp_baby_boost", "income_tax_basic_uplift",
     "income_tax_intermediate_uplift", "higher_rate_freeze", "advanced_rate_freeze",
     "top_rate_freeze"}

\* the functions reforms.py defines at module level
ModuleFunctions ==
    {"apply_scp_inflation_reform", "apply_basic_rate_uplift_reform",
     "apply_intermediate_rate_uplift_reform", "apply_higher_rate_freeze_reform",
     "apply_advanced_rate_freeze_reform", "apply_top_rate_freeze_reform",
     "disable_scp_baby_boost", "apply_scp_baby_boost_reform", "apply_combined_reform"}

\* C22: whenever it is called (by cli.main, by generate_all_data),
\* get_scottish_budget_reforms returns exactly eight definitions, with
\* pairwise distinct ids that are the eight expected ids, each with a
\* callable apply_fn.
C22_EightReformsWithDistinctIds ==
    LET reforms == get_scottish_budget_reforms
    IN  /\ Len(reforms) = 8
        /\ \A i, j \in DOMAIN reforms : reforms[i].id = reforms[j].id => i = j
        /\ {reforms[k].id : k \in DOMAIN reforms} = expected_ids
        /\ \A k \in DOMAIN reforms : reforms[k].apply_fn \in ModuleFunctions
        /\ entry = "pipeline" /\ ppc \in {"loop", "write", "done"} /\ argv.reform = {} =>
              SelectedReforms = reforms

\* a run over the whole list that has reached its eighth reform
C22_Witness ==
    /\ entry = "pipeline" /\ ppc = "loop" /\ argv.reform = {}
    /\ ri = 8
    /\ SelectedReforms[ri].id = "top_rate_freeze"

-----------------------------------------------------------------------------
(* C23 *)

\* C23: for every reform the run has processed, BudgetaryImpactCalculator
\* measures the cost between the same two scenarios, on the same dataset, as
\* the baseline and reformed simulations the pipeline built for that reform
\* and handed to the distributional calculator.
C23_BudgetaryUsesThePipelineBaseline ==
    entry = "pipeline" =>
        \A k \in DOMAIN SelectedReforms :
            (\E i \in DOMAIN tables["distributional_impact"] :
                tables["distributional_impact"][i].reform_id = SelectedReforms[k].id)
            => BudgetaryComparisons(SelectedReforms[k]) = {PipelineComparison(SelectedReforms[k])}

-----------------------------------------------------------------------------
(* C24 *)

\* the share, in percent, of the frame's weight held by the households of S
ClassPct(S) ==
    RMul(RDiv(R(SetSum(S, [i \in S |-> out.df[i].household_weight])), R(WeightSum(out.df))),
         R(100))

InPercentRange(x) == IsFinite(x) /\ ~RGt(R(0), x) /\ ~RGt(x, R(100))

\* C24: the winners/losers calculator counts each household's weight in exactly
\* one class - winner when its income change is above 1, loser when below -1,
\* unchanged otherwise (a change of exactly +1 or -1 included) - and each of
\* the three reported percentages lies in [0, 100].
C24_ThreeClassesPartitionTheWeight ==
    op = "winners_losers" =>
        LET I == DOMAIN out.df
            W == {i \in I : out.df[i].income_change > 1}
            L == {i \in I : out.df[i].income_change < -1}
            U == {i \in I : out.df[i].income_change >= -1 /\ out.df[i].income_change <= 1}
        IN  /\ W \cup L \cup U = I
            /\ W \cap L = {} /\ W \cap U = {} /\ L \cap U = {}
            /\ out.rows.winners_pct = ClassPct(W)
            /\ out.rows.losers_pct = ClassPct(L)
            /\ out.rows.unchanged_pct = ClassPct(U)
            /\ InPercentRange(out.rows.winners_pct)
            /\ InPercentRange(out.rows.losers_pct)
            /\ InPercentRange(out.rows.unchanged_pct)

-----------------------------------------------------------------------------
(* C25 *)

\* the decile group a household of engine rank d belongs to
DecileGroupOf(d) == IF d < 1 THEN 1 ELSE IF d > 10 THEN 10 ELSE d

\* C25: the distributional calculator's frame holds every Scottish household
\* once, in one decile of 1..10 (a rank below 1 in decile 1, above 10 in decile
\* 10); the weights of the ten decile groups add up to the Scottish weight the
\* "All" row divides by, and each decile row's average change divides that
\* decile's weighted change by that decile's own weight.
C25_DecilesPartitionScottishHouseholds ==
    op = "distributional" =>
        LET df == out.df
            Group(k) == {i \in DOMAIN df : df[i].income_decile = k}
            W(S)  == SetSum(S, [i \in S |-> df[i].household_weight])
            Ch(S) == SetSum(S, [i \in S |-> df[i].income_change * df[i].household_weight])
        IN  /\ Len(df) = Cardinality(ScotIdx)
            /\ \A i \in DOMAIN df : df[i].income_decile \in 1..10
            /\ \A h \in ScotIdx : \E i \in DOMAIN df :
                  /\ df[i].baseline_income = hh[h].base
                  /\ df[i].reformed_income = hh[h].reform
                  /\ df[i].household_weight = hh[h].w
                  /\ df[i].income_decile = DecileGroupOf(hh[h].decile)
            /\ SetSum(1..10, [k \in 1..10 |-> W(Group(k))]) = GroupWeight(ScotIdx)
            /\ AllRow.absolute_change = RDiv(R(Ch(DOMAIN df)), R(GroupWeight(ScotIdx)))
            /\ \A r \in 1..(Len(out.rows) - 1) : \E k \in 1..10 :
                  /\ out.rows[r].decile = decile_labels[k]
                  /\ out.rows[r].absolute_change = RDiv(R(Ch(Group(k))), R(W(Group(k))))

\* a household of rank -1 with weight, counted in decile 1, next to one in decile 10
C25_Witness ==
    /\ op = "distributional"
    /\ \E h, g \in ScotIdx : hh[h].decile < 1 /\ hh[h].w > 0 /\ hh[g].decile = 10
    /\ Len(out.rows) = 3
    /\ out.rows[1].decile = "1st" /\ out.rows[2].decile = "10th"
    /\ IsFinite(out.rows[1].absolute_change)

-----------------------------------------------------------------------------
(* C26 *)

\* the positions of a code in the reference table as loaded
PositionsOf(code) ==
    {p \in DOMAIN out.loaded.constituency_df : out.loaded.constituency_df[p].code = code}

\* the constituencies of the loaded table the run is about
Selected(p) ==
    ~out.loaded.scotland_only \/ out.loaded.constituency_df[p].code[1] = "S"

\* C26: every constituency row is computed from the row of the weight matrix
\* that stands at the constituency's position in the reference table as
\* loaded - with or without the Scotland filter - weighting the households'
\* incomes by that row alone; the rows come in the table's order, one for each
\* selected constituency that has a weight row, and none for a constituency
\* without one.
C26_RowsUseTheWeightRowOfTheirPosition ==
    op = "constituency" =>
        /\ \A k \in DOMAIN out.rows : \E p \in PositionsOf(out.rows[k].constituency_code) :
              LET cw == out.loaded.weights[p]
              IN  /\ p <= Len(out.loaded.weights) /\ Selected(p)
                  /\ out.rows[k].constituency_name = out.loaded.constituency_df[p].name
                  /\ out.rows[k].average_gain =
                        RSub(RDiv(R(ConstBaseline(cw) + ConstChange(cw)), R(ConstWeight(cw))),
                             RDiv(R(ConstBaseline(cw)), R(ConstWeight(cw))))
        /\ \A p \in DOMAIN out.loaded.constituency_df :
              Cardinality({k \in DOMAIN out.rows :
                              out.rows[k].constituency_code = out.loaded.constituency_df[p].code})
                 = IF p <= Len(out.loaded.weights) /\ Selected(p) THEN 1 ELSE 0
        /\ \A j, k \in DOMAIN out.rows : j < k =>
              \E p \in PositionsOf(out.rows[j].constituency_code),
                 q \in PositionsOf(out.rows[k].constituency_code) : p < q

\* the filter has removed a constituency that stands before a Scottish one, and
\* the rows report different gains
C26_Witness ==
    /\ op = "constituency"
    /\ out.loaded.scotland_only
    /\ Len(out.rows) = 2 /\ Len(out.loaded.constituency_df) = 3
    /\ out.loaded.constituency_df[1].code[1] = "E"
    /\ IsFinite(out.rows[2].average_gain)
    /\ out.rows[1].average_gain # out.rows[2].average_gain

-----------------------------------------------------------------------------
(* C27 *)

\* sum of a column of the result rows over a set of constituencies
RECURSIVE SumOfColumn(_, _, _)
SumOfColumn(rows, column, S) ==
    IF S = {} THEN R(0)
    ELSE LET c == CHOOSE x \in S : TRUE
         IN  RAdd(rows[c][column], SumOfColumn(rows, column, S \ {c}))

\* C27: in the frame analyze_constituencies returns, the estimated sales of the
\* constituencies of each council add up to the council's sales, and the
\* allocated revenues of all constituencies add up to the total stock revenue
\* (their factors share_pct / 100 add up to 1).
C27_AllocationsSumToTheTotals ==
    (entry = "mansion_tax" /\ analysis.at = "returned") =>
        /\ \A council \in Councils :
              SumOfColumn(analysis.rows, "estimated_sales", council_data(council))
                 = R(COUNCIL_DATA[council])
        /\ SumOfColumn(analysis.rows, "allocated_share", Constituencies) = R(1)

-----------------------------------------------------------------------------
(* C28 *)

\* the position of the baby-boost call in the body of apply_combined_reform
BabyBoostStep ==
    CHOOSE k \in DOMAIN apply_combined_reform_body :
        apply_combined_reform_body[k] = "apply_scp_baby_boost_reform"

\* C28: on every parameter tree, apply_combined_reform calls the SCP inflation
\* function before the baby-boost function; when the baby-boost call begins,
\* the SCP amount and the basic and intermediate thresholds already have the
\* values the function leaves and in_effect is still untouched; and what the
\* function leaves is what the four constituent functions leave when applied
\* one after another in that order.
C28_AmountsAndThresholdsBeforeBabyBoost ==
    entry = "reforms" =>
        LET before == AfterCalls(apply_combined_reform_body, tree, BabyBoostStep - 1)
            after  == Call("apply_combined_reform", tree)
        IN  /\ \E i \in 1..(BabyBoostStep - 1) :
                  apply_combined_reform_body[i] = "apply_scp_inflation_reform"
            /\ before.scp_amount = after.scp_amount
            /\ before.brackets = after.brackets
            /\ before.in_effect = tree.in_effect
            /\ \A y \in Range(DEFAULT_YEARS) :
                  /\ after.scp_amount[y] = SCP_INFLATION_RATE
                  /\ after.in_effect[y] = (y >= 2027 \/ tree.in_effect[y])
            /\ after = apply_scp_baby_boost_reform(
                          apply_intermediate_rate_uplift_reform(
                              apply_basic_rate_uplift_reform(
                                  apply_scp_inflation_reform(tree))))

\* the combined reform has just been applied, after another function, and has
\* left the inflated amount, an uplifted threshold and the baby boost in effect
C28_Witness ==
    /\ entry = "reforms" /\ lastfn = "apply_combined_reform" /\ napplied >= 2
    /\ tree.scp_amount[2026] = SCP_INFLATION_RATE
    /\ tree.brackets[2][2027] # EngineDefault
    /\ tree.in_effect[2027] /\ tree # other

-----------------------------------------------------------------------------
(* C29 *)

\* the samples that differ from s at most in the listed fields of the entities
\* outside Scotland, each taking any value of Alt
VariantsOutsideScotland(s, Alt) ==
    LET Choices(i) == IF s[i].country = "SCOTLAND" THEN {s[i]}
                      ELSE {[a EXCEPT !.country = s[i].country] : a \in Alt}
        F[k \in 0..Len(s)] ==
            IF k = 0 THEN {<<>>} ELSE {Append(v, c) : v \in F[k - 1], c \in Choices(k)}
    IN  F[Len(s)]

\* other weights and incomes for a household outside Scotland
OtherHouseholdValues ==
    {[country |-> "ENGLAND", w |-> 0, base |-> 4, reform |-> 2, decile |-> 2],
     [country |-> "ENGLAND", w |-> 2, base |-> -2, reform |-> 0, decile |-> -1],
     [country |-> "ENGLAND", w |-> 2, base |-> 0, reform |-> 0, decile |-> 1]}

\* other weights and poverty levels for a person outside Scotland
OtherPersonValues ==
    {[country |-> "ENGLAND", w |-> 0, is_child |-> TRUE, base |-> 0, reform |-> 0],
     [country |-> "ENGLAND", w |-> 1, is_child |-> TRUE, base |-> 2, reform |-> 0],
     [country |-> "ENGLAND", w |-> 1, is_child |-> TRUE, base |-> 1, reform |-> 1]}

\* C29: the rows of the generic and income-tax budgetary branches, of the
\* distributional, winners/losers and poverty-metrics calculators are the rows
\* the same calculator returns on every sample that differs from the run's
\* sample only in incomes, weights or poverty levels of households or persons
\* outside Scotland.
C29_RowsIndependentOfEntitiesOutsideScotland ==
    /\ entry = "calculators" /\ op = "budgetary_generic" =>
        \A v \in VariantsOutsideScotland(hh, OtherHouseholdValues) :
            <<CalculateGenericCost(v)>> = out.rows
    /\ entry = "calculators" /\ op = "budgetary_income_tax" =>
        \A v \in VariantsOutsideScotland(hh, OtherHouseholdValues) :
            <<CalculateIncomeTaxCost(v)>> = out.rows
    /\ entry = "calculators" /\ op = "distributional" =>
        \A v \in VariantsOutsideScotland(hh, OtherHouseholdValues) :
            DistributionalCalculate(v) = out
    /\ entry = "calculators" /\ op = "winners_losers" =>
        \A v \in VariantsOutsideScotland(hh, OtherHouseholdValues) :
            WinnersLosersCalculate(DistributionalCalculate(v).df) = out.rows
    /\ entry = "metrics" /\ op = "metrics" =>
        \A v \in VariantsOutsideScotland(hh, OtherPersonValues) :
            MetricsCalculate(v) = out.rows
    /\ entry = "metrics" /\ op = "metrics_raised" =>
        \A v \in VariantsOutsideScotland(hh, OtherPersonValues) : ZeroWeightMetric(v)

\* a run with a household outside Scotland whose income changes, and a
\* non-zero Scottish cost
C29_Witness ==
    /\ entry = "calculators" /\ op = "budgetary_generic"
    /\ \E i \in DOMAIN hh : hh[i].country # "SCOTLAND" /\ hh[i].w > 0 /\ hh[i].reform # hh[i].base
    /\ out.rows[1] # 0

-----------------------------------------------------------------------------
(* C30 *)

\* the freeze reforms: the batch function, the service function and the bracket
FreezeReforms ==
    {[batch |-> "apply_higher_rate_freeze_reform",   service |-> "modal.apply_higher_rate_freeze",   bracket |-> 3],
     [batch |-> "apply_advanced_rate_freeze_reform", service |-> "modal.apply_advanced_rate_freeze", bracket |-> 4],
     [batch |-> "apply_top_rate_freeze_reform",      service |-> "modal.apply_top_rate_freeze",      bracket |-> 5]}

\* C30: on every parameter tree, for the higher, advanced and top rate freeze
\* and every year 2026..2030, the threshold of that year after the batch
\* function (reforms.py) is the threshold of that year after the service's
\* function (modal_app.py) for that year; for 2026 it is the tree's own.
C30_BatchAndServiceFreezeAgree ==
    entry = "reforms" =>
        \A f \in FreezeReforms : \A year \in Range(DEFAULT_YEARS) :
            /\ Call(f.batch, tree).brackets[f.bracket][year]
                  = CallModifier(f.service, tree, year).brackets[f.bracket][year]
            /\ year = 2026 =>
                  Call(f.batch, tree).brackets[f.bracket][year] = tree.brackets[f.bracket][year]

=============================================================================
